---- MODULE Spec2Model ----
(***************************************************************************)
(* A model of the SQLite forensic analyzer: the parser object of           *)
(* backend/app/sqlite_parser.py (SqliteForensicParser) and the endpoints   *)
(* and helpers of backend/app/main.py that drive it.                       *)
(*                                                                         *)
(* Conventions.  Python None is the string "None" for string-valued        *)
(* fields, the empty tuple for dictionary-valued fields (where the code    *)
(* only tests truthiness) and handle 0 for the connection.  File names     *)
(* are sequences of one-character strings and file contents are            *)
(* sequences of bytes (0..255), so that lower-casing, substring tests and  *)
(* big-endian decoding are computed, not assumed.  The sqlite3 provider    *)
(* is the environment: whether it connects, whether its catalog can be     *)
(* read and which tables it lists are inputs.                              *)
(***************************************************************************)
EXTENDS Integers, Sequences, FiniteSets, TLC

VARIABLES
    pc,        \* position of the running operation
    file,      \* the evidence file: [name, data, pad]
    provider,  \* what the sqlite3 provider answers for this file
    parser,    \* the fields of the SqliteForensicParser instance
    conns,     \* every provider connection opened so far: [mode, open, by]
    req,       \* the arguments of the running operation
    result,    \* what the operation returned or raised
    queries    \* statements handed to the provider: [text, params]

vars == <<pc, file, provider, parser, conns, req, result, queries>>

----------------------------------------------------------------------------
(* Bounds of the model *)

\* the most tables a catalog of the model lists
MaxTables == 3

----------------------------------------------------------------------------
(* Python values *)

NoneStr == "None"
NoneDict == <<>>
NoConnection == 0

\* the result of a call: a returned value or a raised exception
Return(v) == [exc |-> "none", msg |-> "", ret |-> <<v>>]
Raise(e, m) == [exc |-> e, msg |-> m, ret |-> <<>>]
NoResult == [exc |-> "none", msg |-> "", ret |-> <<>>]

\* a Python object whose type the code decides: an int or a str
PyInt(n) == [type |-> "int", val |-> n]
PyStr(s) == [type |-> "str", val |-> s]

----------------------------------------------------------------------------
(* Characters and strings: str.lower() and the `in` substring test *)

UpperCase == <<"A", "B", "C", "D", "E", "F", "G", "H", "I", "J", "K", "L", "M",
               "N", "O", "P", "Q", "R", "S", "T", "U", "V", "W", "X", "Y", "Z">>
LowerCase == <<"a", "b", "c", "d", "e", "f", "g", "h", "i", "j", "k", "l", "m",
               "n", "o", "p", "q", "r", "s", "t", "u", "v", "w", "x", "y", "z">>

LowerChar(c) ==
    IF \E i \in DOMAIN UpperCase : UpperCase[i] = c
    THEN LowerCase[CHOOSE i \in DOMAIN UpperCase : UpperCase[i] = c]
    ELSE c

Lower(s) == [i \in DOMAIN s |-> LowerChar(s[i])]

\* Python's `sub in s` for strings
Contains(s, sub) ==
    \E k \in 0..(Len(s) - Len(sub)) :
        \A i \in 1..Len(sub) : s[k + i] = sub[i]

----------------------------------------------------------------------------
(* The evidence file: its leading bytes are explicit (data), followed by   *)
(* pad further bytes whose values no modelled operation depends on (0).    *)

\* os.path.getsize
FileSize(f) == Len(f.data) + f.pad

\* the byte at zero-based offset o
ByteAt(f, o) == IF o < Len(f.data) THEN f.data[o + 1] ELSE 0

Min(a, b) == IF a < b THEN a ELSE b
Max(a, b) == IF a > b THEN a ELSE b

\* open(path, 'rb') succeeds
Readable(f) == IF "readable" \in DOMAIN f THEN f.readable ELSE TRUE

\* f.seek(off); f.read(n)
ReadBytes(f, off, n) ==
    [i \in 1..Max(0, Min(n, FileSize(f) - off)) |-> ByteAt(f, off + i - 1)]

----------------------------------------------------------------------------
(* The parser object *)

\* SqliteForensicParser.__init__
NewParser(f) ==
    [ file_size       |-> FileSize(f),
      md5_hash        |-> NoneDict,
      sha1_hash       |-> NoneDict,
      sha256_hash     |-> NoneDict,
      header_data     |-> NoneDict,
      page_size       |-> 0,
      encoding        |-> NoneStr,
      user_version    |-> 0,
      application_id  |-> 0,
      schema_version  |-> 0,
      schema          |-> NoneDict,
      deleted_records |-> <<>>,
      artifact_type   |-> NoneStr,
      connection      |-> NoConnection ]

----------------------------------------------------------------------------
(* The catalog provider (sqlite3) *)

\* table names the catalogs of the model are drawn from
TableNames ==
    { "urls", "visits", "cookies", "moz_places", "moz_cookies", "messages",
      "chat_list", "sms", "message", "Messages", "android_metadata",
      "notes", "sqlite_sequence" }

\* str.startswith('sqlite_') over the names of the model
IsInternalName(n) ==
    n \in {"sqlite_sequence", "sqlite_stat1", "sqlite_autoindex_urls_1"}

ReadOnly == "ro"
ReadWrite == "rwc"

\* SqliteForensicParser.connect_to_db
ConnectToDb(p, prov, cs) ==
    IF prov.connectable
    THEN [ p   |-> [p EXCEPT !.connection = Len(cs) + 1],
           c   |-> Append(cs, [mode |-> ReadOnly, open |-> TRUE, by |-> "parser"]),
           ret |-> TRUE ]
    ELSE [ p   |-> [p EXCEPT !.connection = NoConnection],
           c   |-> cs,
           ret |-> FALSE ]

\* close() that drops the handle and leaves the connection open
CloseDropsHandle(p, cs) ==
    [p |-> [p EXCEPT !.connection = NoConnection], c |-> cs]

\* SqliteForensicParser.close
Close(p, cs) ==
    IF p.connection # NoConnection
    THEN [ p |-> [p EXCEPT !.connection = NoConnection],
           c |-> [cs EXCEPT ![p.connection].open = FALSE] ]
    ELSE [ p |-> p, c |-> cs ]

\* a field of the provider that only some of the providers state
ProviderField(prov, field, default) ==
    IF field \in DOMAIN prov THEN prov[field] ELSE default

\* PRAGMA table_info(n) raises sqlite3.Error
ColumnQueryFails(prov, n) ==
    n \in prov.broken \/ n \in ProviderField(prov, "pragma_broken", {})

\* a count query that is taken to succeed on every table
CountQueryNeverFails(prov, n) == FALSE

\* SELECT COUNT(*) FROM n raises sqlite3.Error
CountQueryFails(prov, n) == n \in ProviderField(prov, "count_broken", {})

\* rows fetched for a sample
SampleLimit == 5

\* the rows SELECT * FROM n LIMIT 5 returns: [] when it is not run or fails
SampleRows(prov, n) ==
    LET rows == IF n \in DOMAIN ProviderField(prov, "rows", <<>>) THEN prov.rows[n] ELSE <<>>
    IN  IF prov.row_count[n] > 0 /\ n \notin ProviderField(prov, "sample_broken", {})
        THEN SubSeq(rows, 1, Min(SampleLimit, Len(rows)))
        ELSE <<>>

\* the rows of sqlite_master of one type (index or trigger) the loops keep
MasterRows(prov, field, skip_internal) ==
    SelectSeq(ProviderField(prov, field, <<>>),
              LAMBDA row : ~(skip_internal /\ IsInternalName(row.name)))

\* the entries appended to tables[n]['indices'] or tables[n]['triggers'];
\* the key is absent from the dictionary when the list is empty
Attached(rows, n) ==
    LET mine == SelectSeq(rows, LAMBDA row : row.tbl_name = n)
    IN  [i \in DOMAIN mine |-> mine[i].name]

\* tables[table_name] of extract_schema
TableDescriptor(prov, n) ==
    [ row_count   |-> prov.row_count[n],
      columns     |-> IF n \in DOMAIN ProviderField(prov, "columns", <<>>)
                      THEN prov.columns[n] ELSE <<>>,
      sample_rows |-> SampleRows(prov, n),
      indices     |-> Attached(MasterRows(prov, "indices", TRUE), n),
      triggers    |-> Attached(MasterRows(prov, "triggers", FALSE), n) ]

\* indices or triggers of extract_schema: name -> table
ByName(rows) ==
    [ name \in { rows[i].name : i \in DOMAIN rows } |->
        [ table |-> (rows[CHOOSE i \in DOMAIN rows :
                             rows[i].name = name
                             /\ \A j \in DOMAIN rows : rows[j].name = name => j <= i]).tbl_name ] ]

\* SqliteForensicParser.extract_schema
ExtractSchema(p, prov, cs) ==
    LET conn == IF p.connection = NoConnection
                THEN ConnectToDb(p, prov, cs)
                ELSE [p |-> p, c |-> cs, ret |-> TRUE]
    IN  IF ~conn.ret
        THEN [p |-> conn.p, c |-> conn.c, out |-> Return(NoneDict)]
        ELSE IF ~prov.master_ok
        THEN [p |-> conn.p, c |-> conn.c, out |-> Raise("sqlite3.Error", "provider")]
        ELSE LET kept == { n \in prov.tables :
                             /\ ~IsInternalName(n)
                             /\ ~ColumnQueryFails(prov, n)
                             /\ ~CountQueryFails(prov, n) }
                 schema == [ tables   |-> [n \in kept |-> TableDescriptor(prov, n)],
                             indices  |-> ByName(MasterRows(prov, "indices", TRUE)),
                             triggers |-> ByName(MasterRows(prov, "triggers", FALSE)) ]
             IN  [ p   |-> [conn.p EXCEPT !.schema = <<schema>>],
                   c   |-> conn.c,
                   out |-> Return(<<schema>>) ]

\* self.schema.get('tables'), as the set of its keys ({} when absent)
SchemaTables(p) ==
    IF p.schema = NoneDict THEN {} ELSE DOMAIN p.schema[1].tables

----------------------------------------------------------------------------
(* Artifact classification *)

ARTIFACT_SIGNATURES ==
    << [ artifact |-> "chrome_history",
         tables |-> <<"urls", "visits">>,
         file_patterns |-> << <<"H", "i", "s", "t", "o", "r", "y">> >> ],
       [ artifact |-> "chrome_cookies",
         tables |-> <<"cookies">>,
         file_patterns |-> << <<"C", "o", "o", "k", "i", "e", "s">> >> ],
       [ artifact |-> "firefox_history",
         tables |-> <<"moz_places", "moz_historyvisits">>,
         file_patterns |->
           << <<"p", "l", "a", "c", "e", "s", ".", "s", "q", "l", "i", "t", "e">> >> ],
       [ artifact |-> "firefox_cookies",
         tables |-> <<"moz_cookies">>,
         file_patterns |->
           << <<"c", "o", "o", "k", "i", "e", "s", ".",
                "s", "q", "l", "i", "t", "e">> >> ],
       [ artifact |-> "whatsapp_messages",
         tables |-> <<"messages", "chat_list">>,
         file_patterns |->
           << <<"m", "s", "g", "s", "t", "o", "r", "e", ".", "d", "b">> >> ],
       [ artifact |-> "android_contacts",
         tables |-> <<"contacts", "raw_contacts">>,
         file_patterns |->
           << <<"c", "o", "n", "t", "a", "c", "t", "s", "2", ".", "d", "b">> >> ],
       [ artifact |-> "sms_messages",
         tables |-> <<"sms", "messages">>,
         file_patterns |-> << <<"m", "m", "s", "s", "m", "s", ".", "d", "b">> >> ],
       [ artifact |-> "ios_sms",
         tables |-> <<"message">>,
         file_patterns |-> << <<"s", "m", "s", ".", "d", "b">> >> ],
       [ artifact |-> "skype_messages",
         tables |-> <<"Messages">>,
         file_patterns |-> << <<"m", "a", "i", "n", ".", "d", "b">> >> ],
       [ artifact |-> "telegram_messages",
         tables |-> <<"messages">>,
         file_patterns |->
           << <<"t", "e", "l", "e", "g", "r", "a", "m", ".", "d", "b">> >> ] >>

\* any(table in tables for table in signature['tables']), with all() instead
AllTablesPresent(signature, tables) ==
    \A i \in DOMAIN signature.tables : signature.tables[i] \in tables

\* any(table in tables for table in signature['tables'])
AnyTablePresent(signature, tables) ==
    \E i \in DOMAIN signature.tables : signature.tables[i] \in tables

\* any(pattern.lower() in filename ...), filename already lower-cased
AnyPatternInName(signature, filename) ==
    \E i \in DOMAIN signature.file_patterns :
        Contains(filename, Lower(signature.file_patterns[i]))

\* the loop over ARTIFACT_SIGNATURES.items(), from entry i on: the artifact of
\* the first entry passing both tests, "None" when the loop runs out
RECURSIVE SignatureLoop(_, _, _)
SignatureLoop(i, tables, filename) ==
    IF i > Len(ARTIFACT_SIGNATURES) THEN NoneStr
    ELSE IF AnyTablePresent(ARTIFACT_SIGNATURES[i], tables)
            /\ AnyPatternInName(ARTIFACT_SIGNATURES[i], filename)
         THEN ARTIFACT_SIGNATURES[i].artifact
         ELSE SignatureLoop(i + 1, tables, filename)

\* the generic rules, with the cookies and messages tests swapped
FallbackKindSwapped(tables) ==
    IF "urls" \in tables /\ "visits" \in tables THEN "web_browser_history"
    ELSE IF "messages" \in tables THEN "message_store"
    ELSE IF "cookies" \in tables THEN "web_browser_cookies"
    ELSE IF "android_metadata" \in tables THEN "android_app_data"
    ELSE "sqlite_application_data"

\* the generic rules that follow the loop
FallbackKind(tables) ==
    IF "urls" \in tables /\ "visits" \in tables THEN "web_browser_history"
    ELSE IF "cookies" \in tables THEN "web_browser_cookies"
    ELSE IF "messages" \in tables THEN "message_store"
    ELSE IF "android_metadata" \in tables THEN "android_app_data"
    ELSE "sqlite_application_data"

\* SqliteForensicParser.detect_artifact_type
DetectArtifactType(p, prov, cs, f) ==
    LET ext == IF p.schema = NoneDict
               THEN ExtractSchema(p, prov, cs)
               ELSE [p |-> p, c |-> cs, out |-> Return(p.schema)]
        tables == SchemaTables(ext.p)
        filename == Lower(f.name)
        matched == SignatureLoop(1, tables, filename)
        kind == IF matched # NoneStr THEN matched ELSE FallbackKind(tables)
    IN  IF ext.out.exc # "none"
        THEN [p |-> ext.p, c |-> ext.c, out |-> ext.out]
        ELSE IF tables = {}
        THEN [p |-> ext.p, c |-> ext.c, out |-> Return("unknown")]
        ELSE [ p   |-> [ext.p EXCEPT !.artifact_type = kind],
               c   |-> ext.c,
               out |-> Return(kind) ]

----------------------------------------------------------------------------
(* Classification on its own: a parser over a named file whose provider    *)
(* lists some tables; the schema is extracted first or by the classifier.  *)

FileNames ==
    { <<"H", "i", "s", "t", "o", "r", "y", "_", "1", "a", "2", "b", "3", "c", "4", "d">>,
      <<"H", "I", "S", "T", "O", "R", "Y", ".", "b", "a", "k">>,
      <<"C", "o", "o", "k", "i", "e", "s", "_", "9", "f">>,
      <<"c", "o", "o", "k", "i", "e", "s", ".", "s", "q", "l", "i", "t", "e">>,
      <<"P", "l", "a", "c", "e", "s", ".", "S", "Q", "L", "i", "t", "e">>,
      <<"m", "s", "g", "s", "t", "o", "r", "e", ".", "d", "b">>,
      <<"m", "m", "s", "s", "m", "s", ".", "d", "b">>,
      <<"s", "m", "s", ".", "d", "b">>,
      <<"M", "a", "i", "n", ".", "D", "B", "_", "7", "7">>,
      <<"t", "e", "l", "e", "g", "r", "a", "m", ".", "d", "b">>,
      <<"d", "a", "t", "a", ".", "b", "i", "n">> }

Catalogs == { T \in SUBSET TableNames : Cardinality(T) <= MaxTables }

ClassifyProviders ==
    { [ connectable |-> co, master_ok |-> mo, freelist_ok |-> TRUE,
        tables |-> T, broken |-> {},
        row_count |-> [n \in T |-> 1] ] :
      co \in BOOLEAN, mo \in BOOLEAN, T \in Catalogs }

InitClassify ==
    /\ pc = "ready"
    /\ file \in { [name |-> n, data |-> <<>>, pad |-> 0] : n \in FileNames }
    /\ provider \in ClassifyProviders
    /\ parser = NewParser(file)
    /\ conns = <<>>
    /\ req = <<>>
    /\ result = NoResult
    /\ queries = <<>>

\* a caller runs extract_schema before classifying, as validate_db does
DoExtractSchema ==
    /\ pc = "ready"
    /\ parser.schema = NoneDict
    /\ LET r == ExtractSchema(parser, provider, conns)
       IN  /\ r.out.exc = "none"
           /\ parser' = r.p
           /\ conns' = r.c
    /\ UNCHANGED <<pc, file, provider, req, result, queries>>

DoDetectArtifactType ==
    /\ pc = "ready"
    /\ LET r == DetectArtifactType(parser, provider, conns, file)
       IN  /\ parser' = r.p
           /\ conns' = r.c
           /\ result' = r.out
    /\ pc' = "classified"
    /\ UNCHANGED <<file, provider, req, queries>>

NextClassify == DoExtractSchema \/ DoDetectArtifactType

SpecClassify == InitClassify /\ [][NextClassify]_vars

----------------------------------------------------------------------------
(* Claims about classification *)

Classified == pc = "classified" /\ result.exc = "none"

\* signature i passes both tests, stated on the catalog and the base name
SigMatches(i) ==
    /\ \E t \in { ARTIFACT_SIGNATURES[i].tables[k] :
                    k \in DOMAIN ARTIFACT_SIGNATURES[i].tables } :
           t \in SchemaTables(parser)
    /\ \E k \in DOMAIN ARTIFACT_SIGNATURES[i].file_patterns :
           Contains(Lower(file.name), Lower(ARTIFACT_SIGNATURES[i].file_patterns[k]))

\* C1: detect_artifact_type returns (and stores) the artifact of the first
\* signature, in declared order, with a required table in the catalog and a
\* pattern contained, case-insensitively, in the base name; no later
\* signature and no fallback rule overrides it.
C1_FirstSignatureWins ==
    Classified =>
        \A i \in DOMAIN ARTIFACT_SIGNATURES :
            (SigMatches(i) /\ \A j \in 1..(i - 1) : ~SigMatches(j))
                => /\ result.ret = <<ARTIFACT_SIGNATURES[i].artifact>>
                   /\ parser.artifact_type = ARTIFACT_SIGNATURES[i].artifact

\* a classification where two signatures pass and a fallback rule applies too
C1_Witness ==
    /\ Classified
    /\ SigMatches(2) /\ SigMatches(4)
    /\ "cookies" \in SchemaTables(parser)
    /\ result.ret = <<"chrome_cookies">>

\* the fallback rules in the order the claim lists them
ClaimedFallback(tables) ==
    IF {"urls", "visits"} \subseteq tables THEN "web_browser_history"
    ELSE IF "cookies" \in tables THEN "web_browser_cookies"
    ELSE IF "messages" \in tables THEN "message_store"
    ELSE IF "android_metadata" \in tables THEN "android_app_data"
    ELSE IF tables # {} THEN "sqlite_application_data"
    ELSE "unknown"

\* C2: when no signature passes both tests, detect_artifact_type returns the
\* first applicable fallback: urls+visits, cookies, messages,
\* android_metadata, any table, no table (unknown).
C2_FallbackOrder ==
    (Classified /\ \A i \in DOMAIN ARTIFACT_SIGNATURES : ~SigMatches(i))
        => result.ret = <<ClaimedFallback(SchemaTables(parser))>>

\* urls and visits under an unrelated name, with a later rule applicable too
C2_Witness ==
    /\ Classified
    /\ \A i \in DOMAIN ARTIFACT_SIGNATURES : ~SigMatches(i)
    /\ {"urls", "visits", "cookies"} \subseteq SchemaTables(parser)
    /\ result.ret = <<"web_browser_history">>

----------------------------------------------------------------------------
(* Header decoding *)

\* b'SQLite format 3\x00'
SQLITE_SIGNATURE == <<83, 81, 76, 105, 116, 101, 32, 102, 111, 114, 109, 97, 116, 32, 51, 0>>

\* the header is 100 bytes
HeaderLen == 100

\* bytes.startswith
StartsWith(b, prefix) ==
    /\ Len(b) >= Len(prefix)
    /\ \A i \in 1..Len(prefix) : b[i] = prefix[i]

\* struct.unpack('>H', header[o:o+2])[0]
UnpackH(header, o) == header[o + 1] * 256 + header[o + 2]

\* struct.unpack('>H', header[o+2:o+4])[0]: only the low half of the field
UnpackILowHalf(header, o) == header[o + 3] * 256 + header[o + 4]

\* struct.unpack('>I', header[o:o+4])[0]
UnpackI(header, o) ==
    ((header[o + 1] * 256 + header[o + 2]) * 256 + header[o + 3]) * 256 + header[o + 4]

HexDigits == <<"0", "1", "2", "3", "4", "5", "6", "7",
               "8", "9", "a", "b", "c", "d", "e", "f">>

\* binascii.hexlify(b).decode('ascii')
RECURSIVE Hexlify(_)
Hexlify(b) ==
    IF b = <<>> THEN <<>>
    ELSE <<HexDigits[(Head(b) \div 16) + 1], HexDigits[(Head(b) % 16) + 1]>>
         \o Hexlify(Tail(b))

\* the digits of hex(n), most significant first, no leading zeros
RECURSIVE HexDigitsOf(_)
HexDigitsOf(n) ==
    IF n < 16 THEN <<HexDigits[n + 1]>>
    ELSE Append(HexDigitsOf(n \div 16), HexDigits[(n % 16) + 1])

\* hex(n) for n >= 0
Hex(n) == <<"0", "x">> \o HexDigitsOf(n)

\* the two tests of parse_header, signature first
HeaderCheckSignatureFirst(header) ==
    IF ~StartsWith(header, SQLITE_SIGNATURE) THEN "bad_signature"
    ELSE IF Len(header) < HeaderLen THEN "too_small"
    ELSE "ok"

\* the two tests parse_header makes before decoding
HeaderCheck(header) ==
    IF Len(header) < HeaderLen THEN "too_small"
    ELSE IF ~StartsWith(header, SQLITE_SIGNATURE) THEN "bad_signature"
    ELSE "ok"

\* the page size with no special case
DecodePageSizeRaw(raw) == raw

\* if self.page_size == 1: self.page_size = 65536
DecodePageSize(raw) == IF raw = 1 THEN 65536 ELSE raw

\* {1: 'UTF-8', 2: 'UTF-16le', 3: 'UTF-16be'}.get(header[56], 'Unknown')
DecodeEncoding(b) ==
    IF b = 1 THEN "UTF-8"
    ELSE IF b = 2 THEN "UTF-16le"
    ELSE IF b = 3 THEN "UTF-16be"
    ELSE "Unknown"

\* the dictionary parse_header builds
HeaderData(header) ==
    [ signature                 |-> PyStr(Hexlify(SubSeq(header, 1, 16))),
      page_size                 |-> PyInt(DecodePageSize(UnpackH(header, 16))),
      file_format_write_version |-> PyInt(header[18 + 1]),
      file_format_read_version  |-> PyInt(header[19 + 1]),
      reserved_space            |-> PyInt(header[20 + 1]),
      max_payload_fraction      |-> PyInt(header[21 + 1]),
      min_payload_fraction      |-> PyInt(header[22 + 1]),
      leaf_payload_fraction     |-> PyInt(header[23 + 1]),
      file_change_counter       |-> PyInt(UnpackI(header, 24)),
      database_size_pages       |-> PyInt(UnpackI(header, 28)),
      first_freelist_trunk_page |-> PyInt(UnpackI(header, 32)),
      total_freelist_pages      |-> PyInt(UnpackI(header, 36)),
      schema_cookie             |-> PyInt(UnpackI(header, 40)),
      schema_format             |-> PyInt(header[44 + 1]),
      default_page_cache_size   |-> PyInt(UnpackI(header, 48)),
      largest_root_btree_page   |-> PyInt(UnpackI(header, 52)),
      text_encoding             |-> PyStr(DecodeEncoding(header[56 + 1])),
      user_version              |-> PyInt(UnpackI(header, 60)),
      vacuum_mode               |-> PyInt(UnpackI(header, 64)),
      application_id            |-> PyStr(Hex(UnpackI(header, 68))),
      version_valid_for         |-> PyInt(UnpackI(header, 92)),
      sqlite_version_number     |-> PyInt(UnpackI(header, 96)) ]

\* SqliteForensicParser.parse_header
ParseHeader(p, f) ==
    LET header == ReadBytes(f, 0, HeaderLen)
        check == HeaderCheck(header)
    IN  IF check = "too_small"
        THEN [p |-> p, out |-> Raise("ValueError", "too_small")]
        ELSE IF check = "bad_signature"
        THEN [p |-> p, out |-> Raise("ValueError", "bad_signature")]
        ELSE LET hd == HeaderData(header)
             IN  [ p   |-> [p EXCEPT !.page_size = DecodePageSize(UnpackH(header, 16)),
                                     !.encoding = DecodeEncoding(header[56 + 1]),
                                     !.user_version = UnpackI(header, 60),
                                     !.application_id = UnpackI(header, 68),
                                     !.schema_version = UnpackI(header, 96),
                                     !.header_data = <<hd>>],
                   out |-> Return(<<hd>>) ]

----------------------------------------------------------------------------
(* Header decoding on its own: a parser over a file built from a           *)
(* signature, the two page-size bytes, a background pattern and one        *)
(* four-byte window set byte by byte, cut to a length.  TLC's integers     *)
(* are 32-bit signed, so the first byte of a four-byte field stays below   *)
(* 128; Python's integers have no such limit.                              *)

\* the most bytes a file of the model holds beyond its header
MaxPad == 2

\* 16-byte prefixes: the signature, and near misses of it
SignatureVariants ==
    { SQLITE_SIGNATURE,
      [SQLITE_SIGNATURE EXCEPT ![1] = 115],
      [SQLITE_SIGNATURE EXCEPT ![16] = 1],
      [SQLITE_SIGNATURE EXCEPT ![15] = 50],
      [i \in 1..16 |-> 0] }

ByteValues == {0, 1, 128, 255}
TopByteValues == {0, 1, 127}
ByteRange == 0..255
LowByteValues == {0, 1, 2, 16, 255}
Fills == {0, 37, 255}

\* offsets of the four-byte windows set byte by byte
WindowOffsets == {18, 20, 24, 28, 32, 36, 40, 44, 48, 52, 56, 60, 64, 68, 92, 96}
NoWindow == 0 - 1

BackgroundByte(fill, o) ==
    IF o % 4 = 0 THEN (fill * (o + 1)) % 128 ELSE (fill * (o + 1)) % 256

MakeHeader(sig, b16, b17, fill, window, wb) ==
    [ i \in 1..HeaderLen |->
        LET o == i - 1
        IN  IF o < 16 THEN sig[i]
            ELSE IF o = 16 THEN b16
            ELSE IF o = 17 THEN b17
            ELSE IF window # NoWindow /\ o >= window /\ o < window + 4
                 THEN wb[o - window + 1]
            ELSE BackgroundByte(fill, o) ]

HeaderFile(d, k) == [name |-> <<"d", "b">>, data |-> d, pad |-> k]

\* files cut short or with a damaged signature
IsTruncatedFile(f) ==
    \E sig \in SignatureVariants, fill \in Fills, n \in {0, 1, 15, 16, 17, 99, 100} :
        f = HeaderFile(SubSeq(MakeHeader(sig, 16, 0, fill, NoWindow, <<>>), 1, n), 0)

\* whole headers followed by further bytes
IsPaddedFile(f) ==
    \E sig \in SignatureVariants, fill \in Fills, k \in 1..MaxPad :
        f = HeaderFile(MakeHeader(sig, 16, 0, fill, NoWindow, <<>>), k)

\* every value of the high page-size byte with each low byte of LowByteValues
IsPageSizeFile(f) ==
    \E b16 \in ByteRange, b17 \in LowByteValues :
        f = HeaderFile(MakeHeader(SQLITE_SIGNATURE, b16, b17, 0, NoWindow, <<>>), 0)

\* one four-byte window set byte by byte over each background
IsWindowFile(f) ==
    \E fill \in Fills, w \in WindowOffsets, b0 \in TopByteValues,
       b1 \in ByteValues, b2 \in ByteValues, b3 \in ByteValues :
        f = HeaderFile(MakeHeader(SQLITE_SIGNATURE, 16, 0, fill, w, <<b0, b1, b2, b3>>), 0)

InitHeader ==
    /\ pc = "ready"
    /\ \/ IsTruncatedFile(file)
       \/ IsPaddedFile(file)
       \/ IsPageSizeFile(file)
       \/ IsWindowFile(file)
    /\ provider = [connectable |-> FALSE, master_ok |-> FALSE,
                   freelist_ok |-> FALSE, tables |-> {},
                   broken |-> {}, row_count |-> <<>>]
    /\ parser = NewParser(file)
    /\ conns = <<>>
    /\ req = <<>>
    /\ result = NoResult
    /\ queries = <<>>

DoParseHeader ==
    /\ pc = "ready"
    /\ LET r == ParseHeader(parser, file)
       IN  /\ parser' = r.p
           /\ result' = r.out
    /\ pc' = "parsed"
    /\ UNCHANGED <<file, provider, conns, req, queries>>

\* int.from_bytes(header[a:b], 'big') read as the byte at a alone
FromBytesFirstByte(header, a, b) == IF a < Len(header) THEN header[a + 1] ELSE 0

RECURSIVE BigEndian(_)
\* int.from_bytes(bytes, 'big')
BigEndian(bytes) ==
    IF bytes = <<>> THEN 0
    ELSE BigEndian(SubSeq(bytes, 1, Len(bytes) - 1)) * 256 + bytes[Len(bytes)]

\* int.from_bytes(header[a:b], 'big')
FromBytes(header, a, b) == BigEndian(SubSeq(header, a + 1, Min(b, Len(header))))

\* extract_forensic_metadata: fields are what the function reads from the
\* header; of these the ForensicMetadata it returns keeps page_size,
\* application_id and user_version.  coerce: the response model accepts
\* the integer application_id for its string field.
ExtractForensicMetadata(f, coerce) ==
    LET header == ReadBytes(f, 0, HeaderLen)
        fields == [ page_size      |-> FromBytes(header, 16, 18),
                    schema_cookie  |-> FromBytes(header, 40, 44),
                    schema_format  |-> FromBytes(header, 44, 48),
                    text_encoding  |-> FromBytes(header, 56, 60),
                    user_version   |-> FromBytes(header, 60, 64),
                    application_id |-> FromBytes(header, 68, 72) ]
    IN  IF ~Readable(f) \/ Len(header) < 24
        THEN [fields |-> <<>>, out |-> Raise("HTTPException", "Error extracting metadata")]
        ELSE IF ~coerce
        THEN [fields |-> <<fields>>, out |-> Raise("HTTPException", "Error extracting metadata")]
        ELSE [ fields |-> <<fields>>,
               out    |-> Return([ page_size      |-> fields.page_size,
                                   application_id |-> fields.application_id,
                                   user_version   |-> fields.user_version ]) ]

\* extract_forensic_metadata(file_path) on the file of the parser; req keeps
\* what it read and returned
DoExtractForensicMetadata ==
    /\ req = <<>>
    /\ \E coerce \in BOOLEAN :
           req' = [ op |-> "extract_forensic_metadata",
                    metadata |-> ExtractForensicMetadata(file, coerce) ]
    /\ UNCHANGED <<pc, file, provider, parser, conns, result, queries>>

NextHeader == DoParseHeader \/ DoExtractForensicMetadata

SpecHeader == InitHeader /\ [][NextHeader]_vars

----------------------------------------------------------------------------
(* Claims about header decoding *)

Parsed == pc = "parsed"
ParsedOk == pc = "parsed" /\ result.exc = "none"

\* C6: parse_header fails as too short exactly when fewer than 100 bytes can
\* be read, otherwise as a bad signature exactly when the first 16 bytes are
\* not the signature; a failure produces no fields and leaves header_data
\* unset.
C6_HeaderErrors ==
    Parsed =>
        /\ (result.exc = "ValueError" /\ result.msg = "too_small")
               <=> FileSize(file) < 100
        /\ FileSize(file) >= 100 =>
               ((result.exc = "ValueError" /\ result.msg = "bad_signature")
                    <=> ReadBytes(file, 0, 16) # SQLITE_SIGNATURE)
        /\ result.exc # "none" =>
               (result.ret = <<>> /\ parser.header_data = NoneDict)

\* a file that is too short and also lacks the signature
C6_Witness ==
    /\ Parsed
    /\ FileSize(file) = 99
    /\ ReadBytes(file, 0, 16) # SQLITE_SIGNATURE
    /\ result.msg = "too_small"
    /\ parser.header_data = NoneDict

\* C7: the decoded page size is 65536 when the big-endian 16-bit value at
\* bytes 16..17 is 1 and that value otherwise; the parser's page_size field
\* and the page_size entry of the returned fields agree.
C7_PageSize ==
    ParsedOk =>
        LET raw == ByteAt(file, 16) * 256 + ByteAt(file, 17)
        IN  /\ parser.page_size = (IF raw = 1 THEN 65536 ELSE raw)
            /\ result.ret[1][1].page_size = PyInt(parser.page_size)
            /\ parser.header_data[1].page_size = PyInt(parser.page_size)

\* the special case: raw 1
C7_Witness ==
    /\ ParsedOk
    /\ ByteAt(file, 16) = 0 /\ ByteAt(file, 17) = 1
    /\ parser.page_size = 65536

\* b[o]*2^24 + b[o+1]*2^16 + b[o+2]*2^8 + b[o+3] of the file's bytes
BigEndian32(o) ==
    ByteAt(file, o) * 16777216 + ByteAt(file, o + 1) * 65536
        + ByteAt(file, o + 2) * 256 + ByteAt(file, o + 3)

\* the value a string of hexadecimal digits denotes
RECURSIVE HexValue(_)
HexValue(s) ==
    IF s = <<>> THEN 0
    ELSE HexValue(SubSeq(s, 1, Len(s) - 1)) * 16
         + (CHOOSE d \in 0..15 : HexDigits[d + 1] = s[Len(s)])

\* the integer-valued entries other than application_id, and the byte entries
HeaderIntegersDecoded(hd) ==
    /\ hd.file_change_counter = PyInt(BigEndian32(24))
    /\ hd.database_size_pages = PyInt(BigEndian32(28))
    /\ hd.first_freelist_trunk_page = PyInt(BigEndian32(32))
    /\ hd.total_freelist_pages = PyInt(BigEndian32(36))
    /\ hd.schema_cookie = PyInt(BigEndian32(40))
    /\ hd.default_page_cache_size = PyInt(BigEndian32(48))
    /\ hd.largest_root_btree_page = PyInt(BigEndian32(52))
    /\ hd.user_version = PyInt(BigEndian32(60))
    /\ hd.vacuum_mode = PyInt(BigEndian32(64))
    /\ hd.version_valid_for = PyInt(BigEndian32(92))
    /\ hd.sqlite_version_number = PyInt(BigEndian32(96))
    /\ hd.file_format_write_version = PyInt(ByteAt(file, 18))
    /\ hd.file_format_read_version = PyInt(ByteAt(file, 19))
    /\ hd.reserved_space = PyInt(ByteAt(file, 20))
    /\ hd.max_payload_fraction = PyInt(ByteAt(file, 21))
    /\ hd.min_payload_fraction = PyInt(ByteAt(file, 22))
    /\ hd.leaf_payload_fraction = PyInt(ByteAt(file, 23))
    /\ hd.schema_format = PyInt(ByteAt(file, 44))

\* C8 as stated: every listed 32-bit entry of the decoded fields,
\* application_id included, equals the big-endian value of the four bytes at
\* its offset, and every single-byte entry equals its byte.
C8_AsStated ==
    ParsedOk =>
        /\ HeaderIntegersDecoded(result.ret[1][1])
        /\ result.ret[1][1].application_id.type = "int"
        /\ result.ret[1][1].application_id.val = BigEndian32(68)

\* C8 (amended): every listed 32-bit entry other than application_id equals
\* the big-endian value of the four bytes at its offset and every
\* single-byte entry equals its byte; the application_id entry is the
\* string hex() gives for the big-endian value at 68 ("0x" and its
\* hexadecimal digits), and the parser's application_id field is that value.
C8_BigEndianFields ==
    ParsedOk =>
        LET hd == result.ret[1][1]
        IN  /\ HeaderIntegersDecoded(hd)
            /\ hd.application_id.type = "str"
            /\ SubSeq(hd.application_id.val, 1, 2) = <<"0", "x">>
            /\ Len(hd.application_id.val) > 2
            /\ HexValue(SubSeq(hd.application_id.val, 3, Len(hd.application_id.val)))
                   = BigEndian32(68)
            /\ parser.application_id = BigEndian32(68)
            /\ parser.user_version = BigEndian32(60)
            /\ parser.schema_version = BigEndian32(96)

\* a decoded field whose four bytes all differ in weight
C8_Witness ==
    /\ ParsedOk
    /\ ByteAt(file, 68) = 1 /\ ByteAt(file, 69) = 0
    /\ ByteAt(file, 70) = 128 /\ ByteAt(file, 71) = 255
    /\ parser.application_id = 16810239
    /\ result.ret[1][1].application_id = PyStr(<<"0", "x", "1", "0", "0", "8", "0", "f", "f">>)

----------------------------------------------------------------------------
(* Deletion heuristics *)

\* PRAGMA freelist_count: the provider reports the free-page count the
\* database header stores at offset 36 of the file it opened
FreelistCount(f) == UnpackI(ReadBytes(f, 0, HeaderLen), 36)

\* SqliteForensicParser.search_for_deleted_records
SearchForDeletedRecords(p, prov, cs, f) ==
    LET conn == IF p.connection = NoConnection
                THEN ConnectToDb(p, prov, cs)
                ELSE [p |-> p, c |-> cs, ret |-> TRUE]
        freelist ==
            IF ~prov.freelist_ok
            THEN << [type |-> "error", note |-> "sqlite3.Error"] >>
            ELSE IF FreelistCount(f) > 0
            THEN << [type |-> "freelist_pages", count |-> FreelistCount(f),
                     offset |-> <<"v", "a", "r", "i", "o", "u", "s">>] >>
            ELSE <<>>
    IN  IF ~conn.ret
        THEN [p |-> conn.p, c |-> conn.c, out |-> Return(<<>>)]
        ELSE IF conn.p.header_data = NoneDict
        THEN [p |-> conn.p, c |-> conn.c, out |-> Raise("AttributeError", "header_data")]
        ELSE LET expected_size ==
                     conn.p.header_data[1].database_size_pages.val * conn.p.page_size
                 slack ==
                     IF conn.p.file_size > expected_size /\ expected_size > 0
                     THEN << [type |-> "slack_space", offset |-> Hex(expected_size),
                              size |-> conn.p.file_size - expected_size] >>
                     ELSE <<>>
             IN  [p |-> conn.p, c |-> conn.c, out |-> Return(freelist \o slack)]

----------------------------------------------------------------------------
(* The deletion heuristics on their own: a parser over a file whose header *)
(* states a page size, a page count and a free-page count, and whose size  *)
(* lies around the size the header implies.                                *)

\* the largest page count a header of the model states
MaxPages == 2
\* the largest free-page count a header of the model states
MaxFreelist == 2

\* the two page-size bytes: raw 0, 1 (65536), 64, 512, 4096
PageSizeBytes == { <<0, 0>>, <<0, 1>>, <<0, 64>>, <<2, 0>>, <<16, 0>> }

\* bytes a file holds beyond or short of the size its header implies
SizeDeltas == {0 - 1, 0, 1, 4096}

DeletedFile(ps, np, fl, size) ==
    [ name |-> <<"d", "b">>,
      data |-> [MakeHeader(SQLITE_SIGNATURE, ps[1], ps[2], 0, NoWindow, <<>>)
                   EXCEPT ![31 + 1] = np, ![39 + 1] = fl],
      pad  |-> size - HeaderLen ]

InitDeleted ==
    /\ pc = "ready"
    /\ \E ps \in PageSizeBytes, np \in 0..MaxPages, fl \in 0..MaxFreelist,
          d \in SizeDeltas :
          LET size == np * DecodePageSize(ps[1] * 256 + ps[2]) + d
          IN  file = DeletedFile(ps, np, fl, Max(size, HeaderLen))
    /\ provider \in { [ connectable |-> co, master_ok |-> TRUE, freelist_ok |-> fo,
                        tables |-> {}, broken |-> {}, row_count |-> <<>> ] :
                      co \in BOOLEAN, fo \in BOOLEAN }
    /\ parser = NewParser(file)
    /\ conns = <<>>
    /\ req = <<>>
    /\ result = NoResult
    /\ queries = <<>>

\* get_forensic_metadata decodes the header before it searches
DoParseHeaderFirst ==
    /\ pc = "ready"
    /\ LET r == ParseHeader(parser, file)
       IN  /\ parser' = r.p
           /\ result' = r.out
    /\ pc' = "decoded"
    /\ UNCHANGED <<file, provider, conns, req, queries>>

DoSearchForDeletedRecords ==
    /\ pc \in {"ready", "decoded"}
    /\ result.exc = "none"
    /\ LET r == SearchForDeletedRecords(parser, provider, conns, file)
       IN  /\ parser' = r.p
           /\ conns' = r.c
           /\ result' = r.out
    /\ pc' = "searched"
    /\ UNCHANGED <<file, provider, req, queries>>

NextDeleted == DoParseHeaderFirst \/ DoSearchForDeletedRecords

SpecDeleted == InitDeleted /\ [][NextDeleted]_vars

----------------------------------------------------------------------------
(* Claims about the deletion heuristics *)

\* database_size_pages * page_size of the decoded header
ExpectedSize == BigEndian32(28) * parser.page_size

SignalsOfType(t) ==
    { i \in DOMAIN result.ret[1] : result.ret[1][i].type = t }

\* C9: whenever the header-implied size is positive and below the file
\* size, the returned list holds exactly one slack_space signal, with that
\* size as offset and the excess as size, and none otherwise: whatever the
\* freelist rule did and whether or not the provider connected.
C9_SlackSpaceIndependent ==
    (pc = "searched" /\ parser.header_data # NoneDict) =>
        /\ result.exc = "none"
        /\ IF ExpectedSize > 0 /\ FileSize(file) > ExpectedSize
           THEN /\ Cardinality(SignalsOfType("slack_space")) = 1
                /\ \A i \in SignalsOfType("slack_space") :
                       /\ HexValue(SubSeq(result.ret[1][i].offset, 3,
                                          Len(result.ret[1][i].offset))) = ExpectedSize
                       /\ result.ret[1][i].size = FileSize(file) - ExpectedSize
           ELSE SignalsOfType("slack_space") = {}

\* C10: a freelist_pages signal carrying the header's total_freelist_pages
\* is in the list exactly when that field is positive; the list holds at
\* most one freelist_pages and at most one slack_space signal, freelist
\* first.
C10_FreelistSignal ==
    (pc = "searched" /\ parser.header_data # NoneDict) =>
        /\ result.exc = "none"
        /\ (BigEndian32(36) > 0) <=>
               (\E i \in SignalsOfType("freelist_pages") :
                    result.ret[1][i].count = BigEndian32(36))
        /\ Cardinality(SignalsOfType("freelist_pages")) <= 1
        /\ Cardinality(SignalsOfType("slack_space")) <= 1
        /\ \A i \in SignalsOfType("freelist_pages"), j \in SignalsOfType("slack_space") :
               i < j

----------------------------------------------------------------------------
(* Table browsing: the statements get_table_data builds, and what the      *)
(* provider answers.  A statement's text is a sequence of pieces, each     *)
(* tagged with where it came from: the code's own literal text, or an      *)
(* argument of the caller interpolated into it.                            *)

Lit(s) == [src |-> "literal", s |-> s]
Arg(src, s) == [src |-> src, s |-> s]
Statement(text, params) == [text |-> text, params |-> params]

\* the characters of the model in ASCII order
AsciiOrder ==
    <<"%", ".", "0", "1", "2", "3", "4", "5", "6", "7", "8", "9">>
        \o UpperCase \o <<"_">> \o LowerCase

CharCode(c) == CHOOSE i \in DOMAIN AsciiOrder : AsciiOrder[i] = c

\* s < t in byte order (the BINARY collation)
RECURSIVE TextLess(_, _)
TextLess(s, t) ==
    IF t = <<>> THEN FALSE
    ELSE IF s = <<>> THEN TRUE
    ELSE IF Head(s) # Head(t) THEN CharCode(Head(s)) < CharCode(Head(t))
    ELSE TextLess(Tail(s), Tail(t))

\* text LIKE pattern in SQLite: % matches any run, _ any one character,
\* letters match without regard to case
RECURSIVE LikeMatch(_, _)
LikeMatch(pattern, text) ==
    IF pattern = <<>> THEN text = <<>>
    ELSE IF Head(pattern) = "%"
         THEN \E k \in 0..Len(text) :
                  LikeMatch(Tail(pattern), SubSeq(text, k + 1, Len(text)))
    ELSE IF text = <<>> THEN FALSE
    ELSE IF Head(pattern) = "_" THEN LikeMatch(Tail(pattern), Tail(text))
    ELSE /\ LowerChar(Head(pattern)) = LowerChar(Head(text))
         /\ LikeMatch(Tail(pattern), Tail(text))

\* the rows of a sequence that satisfy a predicate given as a set of indices
RECURSIVE SelectRows(_, _)
SelectRows(rows, keep) ==
    IF rows = <<>> THEN <<>>
    ELSE LET rest == SelectRows(SubSeq(rows, 1, Len(rows) - 1), keep)
         IN  IF Len(rows) \in keep THEN Append(rest, rows[Len(rows)]) ELSE rest

\* WHERE c1 LIKE ? AND c2 LIKE ? ... over the rows of a table
FilterRows(rows, clauses, params) ==
    SelectRows(rows,
               { i \in DOMAIN rows :
                   \A k \in DOMAIN clauses : LikeMatch(params[k], rows[i][clauses[k]]) })

\* a row put into a sequence ordered by column c, after the rows equal to it
RECURSIVE InsertSorted(_, _, _)
InsertSorted(sorted, row, c) ==
    IF sorted = <<>> THEN <<row>>
    ELSE IF TextLess(row[c], Head(sorted)[c]) THEN <<row>> \o sorted
    ELSE <<Head(sorted)>> \o InsertSorted(Tail(sorted), row, c)

\* ORDER BY c ASC
RECURSIVE SortAscending(_, _)
SortAscending(rows, c) ==
    IF rows = <<>> THEN <<>>
    ELSE InsertSorted(SortAscending(SubSeq(rows, 1, Len(rows) - 1), c),
                      rows[Len(rows)], c)

Reverse(s) == [i \in DOMAIN s |-> s[Len(s) + 1 - i]]

\* how SQLite reads the text that follows ORDER BY <column>: the order, and
\* whether the LIMIT clause after it is still part of the statement
DirectionEffect(direction) ==
    IF direction = "ASC" THEN [order |-> "asc", limit |-> TRUE]
    ELSE IF direction = "DESC" THEN [order |-> "desc", limit |-> TRUE]
    ELSE IF direction = "desc" THEN [order |-> "desc", limit |-> TRUE]
    ELSE IF direction = "ASC --" THEN [order |-> "asc", limit |-> FALSE]
    ELSE [order |-> "error", limit |-> FALSE]

\* LIMIT n OFFSET m: a negative offset counts as 0
LimitOffset(rows, n, m) ==
    SubSeq(rows, Max(m, 0) + 1, Min(Len(rows), Max(m, 0) + n))

\* the pieces of " WHERE c1 LIKE ? AND c2 LIKE ?"
RECURSIVE JoinClauses(_)
JoinClauses(clauses) ==
    IF clauses = <<>> THEN <<>>
    ELSE IF Len(clauses) = 1 THEN <<Arg("filter_column", clauses[1]), Lit(" LIKE ?")>>
    ELSE <<Arg("filter_column", Head(clauses)), Lit(" LIKE ?"), Lit(" AND ")>>
         \o JoinClauses(Tail(clauses))

WhereClause(clauses) ==
    IF clauses = <<>> THEN <<>> ELSE <<Lit(" WHERE ")>> \o JoinClauses(clauses)

PragmaTableInfo(table_name) ==
    Statement(<<Lit("PRAGMA table_info("), Arg("table_name", table_name), Lit(")")>>, <<>>)

\* the filter loop without the column test
RECURSIVE AllFilterIndices(_, _, _)
AllFilterIndices(filters, valid_columns, i) ==
    IF i > Len(filters) THEN <<>>
    ELSE <<i>> \o AllFilterIndices(filters, valid_columns, i + 1)

\* the filter loop: the columns kept, in order (a column not in the table's
\* column list is skipped)
RECURSIVE ValidFilterIndices(_, _, _)
ValidFilterIndices(filters, valid_columns, i) ==
    IF i > Len(filters) THEN <<>>
    ELSE IF \E k \in DOMAIN valid_columns : valid_columns[k] = filters[i][1]
         THEN <<i>> \o ValidFilterIndices(filters, valid_columns, i + 1)
         ELSE ValidFilterIndices(filters, valid_columns, i + 1)

\* the dictionary get_table_data returns on an error
ErrorResult(m) == [error |-> m]

\* a lookup that finds a row for every name
LookupFindsAny(prov, table_name) == TRUE

\* SELECT name FROM sqlite_master WHERE type='table' AND name=? finds a row
LiveTableLookup(prov, table_name) == table_name \in prov.tables

\* the try block of get_table_data, on an open connection: the statements
\* handed to the provider, in order, and the value returned
TableDataBody(prov, r) ==
    LET lookup == Statement(
                    <<Lit("SELECT name FROM sqlite_master WHERE type='table' AND name=?")>>,
                    <<r.table_name>>)
        valid_columns == IF r.table_name \in prov.tables
                         THEN prov.columns[r.table_name]
                         ELSE <<>>
        kept == ValidFilterIndices(r.filters, valid_columns, 1)
        clauses == [k \in DOMAIN kept |-> r.filters[kept[k]][1]]
        params == [k \in DOMAIN kept |-> <<"%">> \o r.filters[kept[k]][2] \o <<"%">>]
        filter_pragmas == [k \in DOMAIN r.filters |-> PragmaTableInfo(r.table_name)]
        sorting == r.sort_column # NoneStr
        sort_valid == sorting /\ \E k \in DOMAIN valid_columns :
                                     valid_columns[k] = r.sort_column
        sort_pragmas == IF sorting THEN <<PragmaTableInfo(r.table_name)>> ELSE <<>>
        offset == (r.page - 1) * r.page_size
        count_query ==
            Statement(<<Lit("SELECT COUNT(*) FROM "), Arg("table_name", r.table_name)>>
                          \o WhereClause(clauses),
                      params)
        base_query ==
            Statement(<<Lit("SELECT * FROM "), Arg("table_name", r.table_name)>>
                          \o WhereClause(clauses)
                          \o (IF sort_valid
                              THEN <<Lit(" ORDER BY "), Arg("sort_column", r.sort_column),
                                     Lit(" "), Arg("sort_direction", r.sort_direction)>>
                              ELSE <<>>)
                          \o <<Lit(" LIMIT "), Arg("page_size", r.page_size),
                               Lit(" OFFSET "), Arg("offset", offset)>>,
                      params)
        matching == FilterRows(prov.rows[r.table_name], clauses, params)
        effect == IF sort_valid THEN DirectionEffect(r.sort_direction)
                  ELSE [order |-> "none", limit |-> TRUE]
        ordered == IF effect.order = "asc" THEN SortAscending(matching, r.sort_column)
                   ELSE IF effect.order = "desc"
                        THEN Reverse(SortAscending(Reverse(matching), r.sort_column))
                   ELSE matching
        data == IF effect.limit THEN LimitOffset(ordered, r.page_size, offset)
                ELSE ordered
    IN  IF ~prov.master_ok
        THEN [q |-> <<lookup>>, ret |-> ErrorResult("sqlite3.Error")]
        ELSE IF ~LiveTableLookup(prov, r.table_name)
        THEN [q |-> <<lookup>>, ret |-> ErrorResult("Table not found")]
        ELSE IF r.filters # <<>> /\ ~prov.pragma_ok
        THEN [q |-> <<lookup, PragmaTableInfo(r.table_name)>>,
              ret |-> ErrorResult("sqlite3.Error")]
        ELSE IF sorting /\ ~prov.pragma_ok
        THEN [q |-> <<lookup>> \o sort_pragmas, ret |-> ErrorResult("sqlite3.Error")]
        ELSE IF \/ ~prov.count_ok
                \/ r.table_name \notin prov.tables
                \/ \E k \in DOMAIN clauses :
                       \A c \in DOMAIN valid_columns : valid_columns[c] # clauses[k]
        THEN [q |-> <<lookup>> \o filter_pragmas \o sort_pragmas \o <<count_query>>,
              ret |-> ErrorResult("sqlite3.Error")]
        ELSE IF ~prov.select_ok \/ effect.order = "error"
        THEN [q |-> <<lookup>> \o filter_pragmas \o sort_pragmas
                        \o <<count_query, base_query>>,
              ret |-> ErrorResult("sqlite3.Error")]
        ELSE IF r.page_size = 0
        THEN [q |-> <<lookup>> \o filter_pragmas \o sort_pragmas
                        \o <<count_query, base_query>>,
              ret |-> ErrorResult("Unexpected error")]
        ELSE [q |-> <<lookup>> \o filter_pragmas \o sort_pragmas
                        \o <<count_query, base_query>>,
              ret |-> [ data        |-> data,
                        total_count |-> Len(matching),
                        page        |-> r.page,
                        page_size   |-> r.page_size,
                        total_pages |-> (Len(matching) + r.page_size - 1) \div r.page_size ]]

\* SqliteForensicParser.get_table_data
GetTableData(p, prov, cs, r) ==
    LET conn == IF p.connection = NoConnection
                THEN ConnectToDb(p, prov, cs)
                ELSE [p |-> p, c |-> cs, ret |-> TRUE]
    IN  IF ~conn.ret
        THEN [ p |-> conn.p, c |-> conn.c, q |-> <<>>,
               out |-> Return(ErrorResult("Could not connect to database")) ]
        ELSE LET body == TableDataBody(prov, r)
                 closed == Close(conn.p, conn.c)
             IN  [p |-> closed.p, c |-> closed.c, q |-> body.q, out |-> Return(body.ret)]

----------------------------------------------------------------------------
(* Table browsing on its own: a parser over a database with one table of   *)
(* text rows; the caller picks the table, the filters, the sort and the    *)
(* page.                                                                   *)

\* the most rows the browsed table holds
MaxRows == 3
\* the largest page number requested
MaxPage == 2

NamePool == << <<"A", "n", "n">>, <<"b", "o", "b">>, <<"A", "N", "N", "A">>, <<"B", "o">>, <<"a", "_", "b">> >>
CityPool == << <<"R", "o", "m", "e">>, <<"r", "o", "m", "e">>, <<"O", "s", "l", "o">> >>
IdPool == << <<"1">>, <<"2">>, <<"3">>, <<"4">>, <<"5">>, <<"6">>, <<"7">>, <<"8">>, <<"9">> >>

\* row i of the table users
UserRow(i) ==
    [ id   |-> IdPool[((i - 1) % Len(IdPool)) + 1],
      name |-> NamePool[((i - 1) % Len(NamePool)) + 1],
      city |-> CityPool[((i - 1) % Len(CityPool)) + 1] ]

\* what the provider holds: the table users with n rows, and an empty table
BrowseProvider(n, co, fail) ==
    [ connectable |-> co,
      master_ok   |-> fail # "master",
      pragma_ok   |-> fail # "pragma",
      count_ok    |-> fail # "count",
      select_ok   |-> fail # "select",
      freelist_ok |-> TRUE,
      tables      |-> {"users", "logs"},
      broken      |-> {},
      row_count   |-> [t \in {"users", "logs"} |-> IF t = "users" THEN n ELSE 0],
      columns     |-> [t \in {"users", "logs"} |-> <<"id", "name", "city">>],
      rows        |-> [t \in {"users", "logs"} |->
                          IF t = "users" THEN [i \in 1..n |-> UserRow(i)] ELSE <<>>] ]

ProviderFailures == {"none", "master", "pragma", "count", "select"}

\* filter maps of the caller, as (column, value) pairs in insertion order
FilterMaps ==
    { <<>>,
      << <<"name", <<"a">>>> >>,
      << <<"name", <<"A", "n">>>> >>,
      << <<"bogus", <<"a">>>> >>,
      << <<"name", <<"o">>>>, <<"city", <<"R", "o">>>> >>,
      << <<"bogus", <<"z">>>>, <<"city", <<"o">>>> >>,
      << <<"name", <<"_">>>> >>,
      << <<"city", <<>>>> >> }

TableArguments == {"users", "logs", "ghost", "users --"}
SortColumns == {NoneStr, "name", "bogus"}
SortDirections == {"ASC", "DESC", "desc", "ASC --", "sideways"}
PageSizes == {0, 1, 2}

BrowseRequests ==
    [ table_name : TableArguments, filters : FilterMaps, sort_column : SortColumns,
      sort_direction : SortDirections, page : 1..MaxPage, page_size : PageSizes ]

InitBrowse ==
    /\ pc = "ready"
    /\ file = [name |-> <<"d", "b">>, data |-> <<>>, pad |-> 0]
    /\ \E n \in 0..MaxRows, co \in BOOLEAN, fail \in ProviderFailures :
           provider = BrowseProvider(n, co, fail)
    /\ parser = NewParser(file)
    /\ conns = <<>>
    /\ req = <<>>
    /\ result = NoResult
    /\ queries = <<>>

\* the caller opened the connection before browsing
DoConnectFirst ==
    /\ pc = "ready"
    /\ parser.connection = NoConnection
    /\ LET r == ConnectToDb(parser, provider, conns)
       IN  /\ r.ret
           /\ parser' = r.p
           /\ conns' = r.c
    /\ UNCHANGED <<pc, file, provider, req, result, queries>>

DoGetTableData ==
    /\ pc = "ready"
    /\ \E r \in BrowseRequests :
           LET g == GetTableData(parser, provider, conns, r)
           IN  /\ req' = r
               /\ parser' = g.p
               /\ conns' = g.c
               /\ queries' = queries \o g.q
               /\ result' = g.out
    /\ pc' = "browsed"
    /\ UNCHANGED <<file, provider>>

NextBrowse == DoConnectFirst \/ DoGetTableData

SpecBrowse == InitBrowse /\ [][NextBrowse]_vars

----------------------------------------------------------------------------
(* Claims about table browsing *)

\* C3: every caller-supplied string in the text of a statement handed to
\* the provider is a table of the live catalog, a column of that table, or
\* one of the sort keywords; filter values travel as bound parameters only.
C3_QueryTextValidated ==
    pc = "browsed" =>
        \A i \in DOMAIN queries :
            \A k \in DOMAIN queries[i].text :
                LET piece == queries[i].text[k]
                IN  /\ piece.src # "filter_value"
                    /\ piece.src = "table_name" => piece.s \in provider.tables
                    /\ piece.src \in {"filter_column", "sort_column"} =>
                           /\ req.table_name \in provider.tables
                           /\ \E c \in DOMAIN provider.columns[req.table_name] :
                                  provider.columns[req.table_name][c] = piece.s
                    /\ piece.src = "sort_direction" =>
                           piece.s \in {"ASC", "DESC", "asc", "desc"}

----------------------------------------------------------------------------
(* Hashing and the two endpoints that run a whole parser session *)

\* A run of bytes is kept as its explicit leading bytes (data) followed by
\* pad zero bytes, like the content of the file.
Content(f) == [data |-> f.data, pad |-> f.pad]

EmptyBytes == [data |-> <<>>, pad |-> 0]

Size(bytes) == Len(bytes.data) + bytes.pad

\* a + b for two runs of bytes
Concat(a, b) ==
    IF a.pad = 0 THEN [data |-> a.data \o b.data, pad |-> b.pad]
    ELSE IF b.data = <<>> THEN [data |-> a.data, pad |-> a.pad + b.pad]
    ELSE [data |-> a.data \o [i \in 1..a.pad |-> 0] \o b.data, pad |-> b.pad]

\* bytes read by one call of f.read
ChunkSize == 4096

\* f.read(n) at position offset
ReadChunk(f, offset, n) ==
    LET end == Min(offset + n, FileSize(f))
        explicit_end == Min(end, Len(f.data))
    IN  IF offset >= end THEN EmptyBytes
        ELSE [ data |-> SubSeq(f.data, offset + 1, explicit_end),
               pad  |-> Max(0, end - Max(offset, Len(f.data))) ]

\* the position after a read that skips the byte behind the chunk
PositionSkipping(offset, chunk) == offset + Size(chunk) + 1

\* the file position after a read of chunk at offset
PositionAfter(offset, chunk) == offset + Size(chunk)

\* iter(lambda: f.read(4096), b''): the reads made from position offset on,
\* the last of which is the empty one that ends the loop
RECURSIVE ChunkReads(_, _)
ChunkReads(f, offset) ==
    LET chunk == ReadChunk(f, offset, ChunkSize)
    IN  IF Size(chunk) = 0 THEN <<[offset |-> offset, chunk |-> chunk]>>
        ELSE <<[offset |-> offset, chunk |-> chunk]>>
             \o ChunkReads(f, PositionAfter(offset, chunk))

\* the bytes a digest has been fed by update(chunk) for every chunk of the
\* loop, in order
RECURSIVE Fed(_)
Fed(reads) ==
    IF reads = <<>> THEN EmptyBytes
    ELSE IF Size(reads[Len(reads)].chunk) = 0 THEN Fed(SubSeq(reads, 1, Len(reads) - 1))
    ELSE Concat(Fed(SubSeq(reads, 1, Len(reads) - 1)), reads[Len(reads)].chunk)

\* hashlib digest of the bytes fed: a value that depends on the algorithm
\* and on the bytes, and is never None
Digest(alg, bytes) == [alg |-> alg, data |-> bytes.data, pad |-> bytes.pad]

\* SqliteForensicParser.calculate_hashes
CalculateHashes(p, f) ==
    IF ~Readable(f)
    THEN [p |-> p, out |-> Raise("OSError", "open")]
    ELSE LET fed == Fed(ChunkReads(f, 0))
         IN  [ p   |-> [p EXCEPT !.md5_hash = Digest("md5", fed),
                                 !.sha1_hash = Digest("sha1", fed),
                                 !.sha256_hash = Digest("sha256", fed)],
               out |-> Return([ md5 |-> Digest("md5", fed), sha1 |-> Digest("sha1", fed),
                                sha256 |-> Digest("sha256", fed) ]) ]

\* a ValidationResponse that states a kind, unknown, where none was detected
ValidationResponseWithKind(is_valid, errors, p, with_hashes, with_signature, artifact) ==
    [ is_valid         |-> is_valid,
      errors           |-> errors,
      md5_hash         |-> IF with_hashes THEN p.md5_hash ELSE NoneDict,
      sha1_hash        |-> IF with_hashes THEN p.sha1_hash ELSE NoneDict,
      sha256_hash      |-> IF with_hashes THEN p.sha256_hash ELSE NoneDict,
      file_size        |-> IF with_hashes THEN <<p.file_size>> ELSE <<>>,
      header_signature |-> IF with_signature THEN <<"SQLite format 3">> ELSE <<>>,
      artifact_type    |-> IF artifact = <<>> THEN <<"unknown">> ELSE artifact ]

\* ValidationResponse; None is <<>>, a present value v is <<v>>
ValidationResponse(is_valid, errors, p, with_hashes, with_signature, artifact) ==
    [ is_valid         |-> is_valid,
      errors           |-> errors,
      md5_hash         |-> IF with_hashes THEN p.md5_hash ELSE NoneDict,
      sha1_hash        |-> IF with_hashes THEN p.sha1_hash ELSE NoneDict,
      sha256_hash      |-> IF with_hashes THEN p.sha256_hash ELSE NoneDict,
      file_size        |-> IF with_hashes THEN <<p.file_size>> ELSE <<>>,
      header_signature |-> IF with_signature THEN <<"SQLite format 3">> ELSE <<>>,
      artifact_type    |-> artifact ]

\* v evaluated once, then handed to the step that follows
Then(v, F(_)) == CHOOSE r \in { F(x) : x \in {v} } : TRUE

\* finally: parser.close(), then the response goes out
Finally(p, c, resp) ==
    Then(Close(p, c), LAMBDA closed : [p |-> closed.p, c |-> closed.c, out |-> Return(resp)])

\* validate_db, from the construction of the parser to the finally clause
ValidateDb(prov, cs, f) ==
    Then(CalculateHashes(NewParser(f), f), LAMBDA h :
    IF h.out.exc # "none"
    THEN Finally(h.p, cs, ValidationResponse(FALSE, << <<"Error validating file">> >>,
                                             h.p, FALSE, FALSE, <<>>))
    ELSE Then(ParseHeader(h.p, f), LAMBDA hd :
    IF hd.out.exc # "none"
    THEN Finally(hd.p, cs, ValidationResponse(FALSE, << <<hd.out.msg>> >>,
                                              hd.p, TRUE, FALSE, <<>>))
    ELSE Then(ConnectToDb(hd.p, prov, cs), LAMBDA co :
    IF ~co.ret
    THEN Finally(co.p, co.c, ValidationResponse(FALSE, << <<"corrupted or encrypted">> >>,
                                                co.p, TRUE, TRUE, <<>>))
    ELSE Then(ExtractSchema(co.p, prov, co.c), LAMBDA ex :
    IF ex.out.exc # "none"
    THEN Finally(ex.p, ex.c, ValidationResponse(FALSE, << <<"Error validating file">> >>,
                                                ex.p, FALSE, FALSE, <<>>))
    ELSE IF SchemaTables(ex.p) = {}
    THEN Finally(ex.p, ex.c, ValidationResponse(FALSE, << <<"contains no tables">> >>,
                                                ex.p, TRUE, TRUE, <<>>))
    ELSE Then(DetectArtifactType(ex.p, prov, ex.c, f), LAMBDA de :
    IF de.out.exc # "none"
    THEN Finally(de.p, de.c, ValidationResponse(FALSE, << <<"Error validating file">> >>,
                                                de.p, FALSE, FALSE, <<>>))
    ELSE Finally(de.p, de.c, ValidationResponse(TRUE, <<>>, de.p, TRUE, TRUE,
                                                <<de.out.ret[1]>>)))))))

\* SqliteForensicParser.get_forensic_metadata
GetForensicMetadata(p0, prov, cs, f) ==
    Then(CalculateHashes(p0, f), LAMBDA h :
    IF h.out.exc # "none" THEN [p |-> h.p, c |-> cs, out |-> h.out]
    ELSE Then(IF h.p.header_data = NoneDict
              THEN ParseHeader(h.p, f)
              ELSE [p |-> h.p, out |-> Return(h.p.header_data)], LAMBDA hd :
    IF hd.out.exc # "none" THEN [p |-> hd.p, c |-> cs, out |-> hd.out]
    ELSE Then(IF hd.p.schema = NoneDict
              THEN ExtractSchema(hd.p, prov, cs)
              ELSE [p |-> hd.p, c |-> cs, out |-> Return(hd.p.schema)], LAMBDA ex :
    IF ex.out.exc # "none" THEN [p |-> ex.p, c |-> ex.c, out |-> ex.out]
    ELSE Then(DetectArtifactType(ex.p, prov, ex.c, f), LAMBDA de :
    IF de.out.exc # "none" THEN [p |-> de.p, c |-> de.c, out |-> de.out]
    ELSE Then(SearchForDeletedRecords(de.p, prov, de.c, f), LAMBDA se :
    IF se.out.exc # "none" THEN [p |-> se.p, c |-> se.c, out |-> se.out]
    ELSE [ p   |-> [se.p EXCEPT !.deleted_records = se.out.ret[1]],
           c   |-> se.c,
           out |-> Return([ hashes          |-> h.out.ret[1],
                            header          |-> se.p.header_data,
                            artifact_type   |-> de.out.ret[1],
                            tables          |-> SchemaTables(se.p),
                            deleted_records |-> se.out.ret[1] ]) ])))))

\* analyze_db, from the construction of the parser to the finally clause:
\* the response carries the metadata, a failure becomes HTTPException(500)
AnalyzeDb(prov, cs, f) ==
    Then(GetForensicMetadata(NewParser(f), prov, cs, f), LAMBDA m :
    Then(Close(m.p, m.c), LAMBDA closed :
        [ p   |-> closed.p,
          c   |-> closed.c,
          out |-> IF m.out.exc # "none"
                  THEN Raise("HTTPException", "Error analyzing file")
                  ELSE m.out ]))

----------------------------------------------------------------------------
(* The backup analysis, which opens the file through the provider itself *)

RECURSIVE SeqOfSet(_)
\* the rows of sqlite_master, in the order the provider returns them
SeqOfSet(S) ==
    IF S = {} THEN <<>>
    ELSE LET n == CHOOSE x \in S : TRUE
         IN  <<n>> \o SeqOfSet(S \ {n})

\* list.remove(x)
Remove(list, x) ==
    LET at == CHOOSE i \in DOMAIN list : list[i] = x /\ \A j \in 1..(i - 1) : list[j] # x
    IN  [i \in 1..(Len(list) - 1) |-> IF i < at THEN list[i] ELSE list[i + 1]]

RECURSIVE ProbeLoop(_, _, _, _, _)
\* validate_sqlite_database, the loop over recovered_tables: i is the
\* zero-based position of the list iterator, probed the tables queried
ProbeLoop(prov, tables, i, errors, probed) ==
    IF i >= Len(tables) THEN [tables |-> tables, errors |-> errors, probed |-> probed]
    ELSE LET table == tables[i + 1]
         IN  IF table \in prov.broken
             THEN ProbeLoop(prov, Remove(tables, table), i + 1,
                            Append(errors, <<"Table error", table>>), Append(probed, table))
             ELSE ProbeLoop(prov, tables, i + 1, errors, Append(probed, table))

\* the names SELECT name FROM sqlite_master WHERE type='table' returns
MasterTableNames(prov) ==
    IF "table_order" \in DOMAIN prov THEN prov.table_order ELSE SeqOfSet(prov.tables)

\* validate_sqlite_database
ValidateSqliteDatabase(prov, cs, f) ==
    LET header == ReadBytes(f, 0, 16)
        e1 == IF StartsWith(header, SQLITE_SIGNATURE) THEN <<>>
              ELSE << <<"Invalid SQLite header signature">> >>
        opened == Append(cs, [mode |-> ReadWrite, open |-> TRUE,
                              by |-> "validate_sqlite_database"])
        conn == Len(opened)
        e2 == IF prov.master_ok THEN e1 ELSE Append(e1, <<"Schema error">>)
        recovered == IF prov.master_ok THEN MasterTableNames(prov) ELSE <<>>
        loop == ProbeLoop(prov, recovered, 0, e2, <<>>)
    IN  IF ~Readable(f)
        THEN [ c |-> cs, is_valid |-> FALSE, errors |-> << <<"General error">> >>,
               recovered_tables |-> <<>>, partial_analysis |-> FALSE, probed |-> <<>> ]
        ELSE IF ~prov.connectable
        THEN [ c |-> cs, is_valid |-> FALSE, errors |-> Append(e1, <<"Database error">>),
               recovered_tables |-> <<>>, partial_analysis |-> TRUE, probed |-> <<>> ]
        ELSE [ c |-> [opened EXCEPT ![conn].open = FALSE],
               is_valid |-> loop.errors = <<>>,
               errors |-> loop.errors,
               recovered_tables |-> loop.tables,
               partial_analysis |-> ~prov.master_ok,
               probed |-> loop.probed ]

\* analyze_database_structure: after the validation, AnalysisResponse is
\* built without its required fields, which raises; the handler turns
\* every exception into HTTPException(500)
AnalyzeDatabaseStructure(prov, cs, f) ==
    LET v == ValidateSqliteDatabase(prov, cs, f)
    IN  [c |-> v.c, out |-> Raise("HTTPException", "Error in database analysis")]

\* create_backup
CreateBackup(prov, cs, f) ==
    LET a == AnalyzeDatabaseStructure(prov, cs, f)
    IN  [ c   |-> a.c,
          out |-> IF a.out.exc # "none"
                  THEN Raise("HTTPException", "Error creating backup")
                  ELSE a.out ]


----------------------------------------------------------------------------
(* Parser sessions: one operation of an endpoint or of the table browser   *)
(* over a file that may be truncated, foreign or unreadable, and a         *)
(* provider that may fail at any one step.                                 *)

SessionFileKinds == {"database", "truncated", "foreign"}

SessionFile(kind, name, readable) ==
    LET good == DeletedFile(<<0, 64>>, 1, 1, 164)
    IN  [ name     |-> name,
          data     |-> IF kind = "truncated" THEN SubSeq(good.data, 1, 50)
                       ELSE IF kind = "foreign" THEN [good.data EXCEPT ![1] = 0]
                       ELSE good.data,
          pad      |-> IF kind = "truncated" THEN 0 ELSE good.pad,
          readable |-> readable ]

SessionNames ==
    { <<"H", "i", "s", "t", "o", "r", "y", "_", "1", "a", "2", "b", "3", "c", "4", "d">>,
      <<"d", "a", "t", "a", ".", "b", "i", "n">> }

SessionCatalogs == { {}, {"urls", "visits"}, {"notes", "messages", "sqlite_sequence"} }

SessionFailures == {"none", "master", "pragma", "count", "select", "freelist", "table"}

\* tables whose queries fail when the failure is per table
FailingTables == {"visits", "notes"}

SessionProvider(T, co, fail) ==
    [ connectable |-> co,
      master_ok   |-> fail # "master",
      pragma_ok   |-> fail # "pragma",
      count_ok    |-> fail # "count",
      select_ok   |-> fail # "select",
      freelist_ok |-> fail # "freelist",
      tables      |-> T,
      broken      |-> IF fail = "table" THEN T \cap FailingTables ELSE {},
      row_count   |-> [t \in T |-> 2],
      columns     |-> [t \in T |-> <<"id", "name", "city">>],
      rows        |-> [t \in T |-> [i \in 1..2 |-> UserRow(i)]] ]

SessionRequests ==
    { [ table_name |-> "urls", filters |-> <<>>, sort_column |-> NoneStr,
        sort_direction |-> "ASC", page |-> 1, page_size |-> 1 ],
      [ table_name |-> "ghost", filters |-> <<>>, sort_column |-> NoneStr,
        sort_direction |-> "ASC", page |-> 1, page_size |-> 1 ],
      [ table_name |-> "urls", filters |-> << <<"name", <<"a">>>> >>,
        sort_column |-> "name", sort_direction |-> "sideways", page |-> 1, page_size |-> 2 ],
      [ table_name |-> "notes", filters |-> << <<"city", <<"o">>>> >>,
        sort_column |-> "id", sort_direction |-> "DESC", page |-> 2, page_size |-> 0 ] }

InitSession ==
    /\ pc = "ready"
    /\ \E kind \in SessionFileKinds, name \in SessionNames, readable \in BOOLEAN :
           file = SessionFile(kind, name, readable)
    /\ \E T \in SessionCatalogs, co \in BOOLEAN, fail \in SessionFailures :
           provider = SessionProvider(T, co, fail)
    /\ parser = NewParser(file)
    /\ conns = <<>>
    /\ req = <<>>
    /\ result = NoResult
    /\ queries = <<>>

\* get_table_data on the parser of the session
DoSessionGetTableData ==
    /\ pc = "ready"
    /\ \E r \in SessionRequests :
           LET g == GetTableData(parser, provider, conns, r)
           IN  /\ req' = [op |-> "get_table_data", args |-> r]
               /\ parser' = g.p
               /\ conns' = g.c
               /\ queries' = queries \o g.q
               /\ result' = g.out
    /\ pc' = "returned"
    /\ UNCHANGED <<file, provider>>

\* POST /api/validate
DoValidateDb ==
    /\ pc = "ready"
    /\ parser.connection = NoConnection
    /\ LET v == ValidateDb(provider, conns, file)
       IN  /\ parser' = v.p
           /\ conns' = v.c
           /\ result' = v.out
    /\ req' = [op |-> "validate_db", args |-> <<>>]
    /\ pc' = "returned"
    /\ UNCHANGED <<file, provider, queries>>

\* POST /api/analyze
DoAnalyzeDb ==
    /\ pc = "ready"
    /\ parser.connection = NoConnection
    /\ LET a == AnalyzeDb(provider, conns, file)
       IN  /\ parser' = a.p
           /\ conns' = a.c
           /\ result' = a.out
    /\ req' = [op |-> "analyze_db", args |-> <<>>]
    /\ pc' = "returned"
    /\ UNCHANGED <<file, provider, queries>>

\* the background task POST /api/analyze-database schedules
DoCreateBackup ==
    /\ pc = "ready"
    /\ parser.connection = NoConnection
    /\ LET b == CreateBackup(provider, conns, file)
       IN  /\ conns' = b.c
           /\ result' = b.out
    /\ req' = [op |-> "create_backup", args |-> <<>>]
    /\ pc' = "returned"
    /\ UNCHANGED <<file, provider, parser, queries>>

\* between the caller's extract_schema and its table query, a table of the
\* cached schema leaves the catalog of the file
DoTableDropped ==
    /\ pc = "ready"
    /\ parser.schema # NoneDict
    /\ SchemaTables(parser) \subseteq provider.tables
    /\ \E t \in SchemaTables(parser) :
           provider' = [provider EXCEPT !.tables = @ \ {t}]
    /\ UNCHANGED <<pc, file, parser, conns, req, result, queries>>

NextSession ==
    \/ DoConnectFirst
    \/ DoExtractSchema
    \/ DoTableDropped
    \/ DoSessionGetTableData
    \/ DoValidateDb
    \/ DoAnalyzeDb
    \/ DoCreateBackup

SpecSession == InitSession /\ [][NextSession]_vars

----------------------------------------------------------------------------
(* Claims about sessions *)

\* the operation of the session has returned or raised
Returned(op) == pc = "returned" /\ req.op = op

\* C4: when get_table_data, the validate endpoint or the analyze endpoint
\* has returned or raised, on whatever path, the parser holds no connection
\* and every connection the parser opened is closed.
C4_ConnectionsReleased ==
    (Returned("get_table_data") \/ Returned("validate_db") \/ Returned("analyze_db")) =>
        /\ parser.connection = NoConnection
        /\ \A i \in DOMAIN conns : conns[i].by = "parser" => ~conns[i].open

\* an endpoint that opened a connection and then met a provider error, and
\* a table query that opened one and returned an error
C4_Witness ==
    /\ pc = "returned"
    /\ \E i \in DOMAIN conns : conns[i].by = "parser"
    /\ \/ Returned("validate_db") /\ ~provider.master_ok /\ ~result.ret[1].is_valid
       \/ Returned("analyze_db") /\ ~provider.master_ok /\ result.exc = "HTTPException"
       \/ Returned("get_table_data") /\ "error" \in DOMAIN result.ret[1]

\* C5: every connection opened on the evidence file, by the parser or by
\* the backup analysis, is read-only.
C5_AllConnectionsReadOnly ==
    \A i \in DOMAIN conns : conns[i].mode = ReadOnly


\* the table browsed has returned a page (not an error)
PageReturned ==
    /\ pc = "browsed"
    /\ result.exc = "none"
    /\ "data" \in DOMAIN result.ret[1]

\* c is a column of the table the request names
IsColumnOf(c) ==
    \E k \in DOMAIN provider.columns[req.table_name] :
        provider.columns[req.table_name][k] = c

\* the rows of the table that satisfy every filter on a real column, in
\* the order of the table
FilteredRows ==
    LET rows == provider.rows[req.table_name]
    IN  SelectRows(rows,
                   { i \in DOMAIN rows :
                       \A k \in DOMAIN req.filters :
                           IsColumnOf(req.filters[k][1]) =>
                               LikeMatch(<<"%">> \o req.filters[k][2] \o <<"%">>,
                                         rows[i][req.filters[k][1]]) })

\* the filtered rows in the order the request asks for
RequestedRows ==
    IF req.sort_column = NoneStr \/ ~IsColumnOf(req.sort_column) THEN FilteredRows
    ELSE IF req.sort_direction \in {"DESC", "desc"}
         THEN Reverse(SortAscending(Reverse(FilteredRows), req.sort_column))
         ELSE SortAscending(FilteredRows, req.sort_column)

\* C11: for page >= 1 and page_size >= 1 a returned page has total_count =
\* the number of rows satisfying the validated filters, total_pages =
\* ceil(total_count / page_size), and as data exactly the rows at positions
\* (page-1)*page_size .. (page-1)*page_size + page_size - 1 of the filtered
\* and sorted sequence: never more than page_size rows, none past the end.
C11_Pagination ==
    (PageReturned /\ req.page >= 1 /\ req.page_size >= 1) =>
        LET page == result.ret[1]
            first == (req.page - 1) * req.page_size
        IN  /\ page.total_count = Len(FilteredRows)
            /\ page.total_pages * req.page_size >= page.total_count
            /\ (page.total_pages - 1) * req.page_size < page.total_count
               \/ (page.total_pages = 0 /\ page.total_count = 0)
            /\ Len(page.data) <= req.page_size
            /\ Len(page.data) = Max(0, Min(req.page_size, page.total_count - first))
            /\ \A j \in DOMAIN page.data : page.data[j] = RequestedRows[first + j]
            /\ req.page > page.total_pages => page.data = <<>>


\* the provider answers every statement of the request, whose table exists
ProviderAnswers ==
    /\ provider.connectable /\ provider.master_ok /\ provider.pragma_ok
    /\ provider.count_ok /\ provider.select_ok
    /\ req.table_name \in provider.tables

\* the request asks for no ordering the provider has to parse: no sort
\* column, one that is not a column of the table, or a sort keyword
PlainOrdering ==
    \/ req.sort_column = NoneStr
    \/ ~IsColumnOf(req.sort_column)
    \/ req.sort_direction \in {"ASC", "DESC", "desc"}

\* C12: a sort column that is not a column of the table is ignored and a
\* filter on a column that is not a column of the table is dropped, without
\* an error: the page returned is the page of the request restricted to the
\* table's real columns (all rows when every filter column is unknown).
C12_UnknownColumnsIgnored ==
    (pc = "browsed" /\ ProviderAnswers /\ PlainOrdering /\ req.page_size >= 1) =>
        /\ PageReturned
        /\ result.ret[1].total_count = Len(FilteredRows)
        /\ result.ret[1].data =
               LimitOffset(RequestedRows, req.page_size, (req.page - 1) * req.page_size)
        /\ (\A k \in DOMAIN req.filters : ~IsColumnOf(req.filters[k][1])) =>
               result.ret[1].total_count = Len(provider.rows[req.table_name])

\* a filter on an unknown column next to a filter on a real one, and an
\* unknown sort column: the page is the one the real filter alone gives
C12_Witness ==
    /\ pc = "browsed" /\ ProviderAnswers /\ PageReturned
    /\ req.sort_column = "bogus"
    /\ req.filters = << <<"bogus", <<"z">>>>, <<"city", <<"o">>>> >>
    /\ Len(provider.rows[req.table_name]) = 3
    /\ result.ret[1].total_count = 3
    /\ req.page_size = 2 /\ req.page = 1
    /\ result.ret[1].data = SubSeq(provider.rows[req.table_name], 1, 2)


\* row i of the browsed table holds, in every filter column that is a
\* column of the table, the filter's value as a contiguous substring,
\* letter case included
HoldsEveryValue(i) ==
    \A k \in DOMAIN req.filters :
        IsColumnOf(req.filters[k][1]) =>
            Contains(provider.rows[req.table_name][i][req.filters[k][1]],
                     req.filters[k][2])

\* C13: a row is returned and counted exactly when, for every validated
\* filter (column, value), its value in that column contains value as a
\* case-sensitive contiguous substring, the filters being combined by AND.
C13_CaseSensitiveSubstring ==
    PageReturned =>
        LET rows == provider.rows[req.table_name]
        IN  /\ result.ret[1].total_count =
                   Cardinality({ i \in DOMAIN rows : HoldsEveryValue(i) })
            /\ \A j \in DOMAIN result.ret[1].data :
                   \E i \in DOMAIN rows :
                       rows[i] = result.ret[1].data[j] /\ HoldsEveryValue(i)


----------------------------------------------------------------------------
(* Claims about the table lookup *)

\* the table query of the session has returned
TableQueried == Returned("get_table_data") /\ result.exc = "none"

\* the text of statement i holds a piece that came from table_name
TextHoldsTableName(i) ==
    \E k \in DOMAIN queries[i].text : queries[i].text[k].src = "table_name"

\* C14: when the provider answers the lookup and the table name is not a
\* table of the live catalog (whatever the parser's cached schema says),
\* get_table_data returns the table-not-found error, and no statement whose
\* text contains the caller's table name is executed: the name travels as
\* the bound parameter of the lookup only.
C14_TableNotFound ==
    ( /\ TableQueried
      /\ provider.connectable /\ provider.master_ok
      /\ req.args.table_name \notin provider.tables ) =>
        /\ result.ret[1] = ErrorResult("Table not found")
        /\ Len(queries) = 1
        /\ queries[1].params = <<req.args.table_name>>
        /\ \A i \in DOMAIN queries : ~TextHoldsTableName(i)

\* the cached schema still lists the table, the live catalog does not
C14_Witness ==
    /\ TableQueried
    /\ req.args.table_name \in SchemaTables(parser)
    /\ req.args.table_name \notin provider.tables
    /\ result.ret[1] = ErrorResult("Table not found")
    /\ Len(queries) = 1


----------------------------------------------------------------------------
(* Byte inspection: pattern search and hex dump *)

\* f.read(): the whole content
ReadAll(f) == ReadBytes(f, 0, FileSize(f))

UpperHexDigits == <<"0", "1", "2", "3", "4", "5", "6", "7",
                    "8", "9", "A", "B", "C", "D", "E", "F">>

IsHexDigit(c) ==
    \E i \in DOMAIN HexDigits : HexDigits[i] = c \/ UpperHexDigits[i] = c

HexDigitValue(c) ==
    (CHOOSE i \in DOMAIN HexDigits : HexDigits[i] = c \/ UpperHexDigits[i] = c) - 1

\* binascii.unhexlify(s): the bytes, or the error it raises
Unhexlify(s) ==
    IF Len(s) % 2 # 0
    THEN Raise("binascii.Error", "Odd-length string")
    ELSE IF \E i \in DOMAIN s : ~IsHexDigit(s[i])
    THEN Raise("binascii.Error", "Non-hexadecimal digit found")
    ELSE Return([k \in 1..(Len(s) \div 2) |->
                    HexDigitValue(s[2 * k - 1]) * 16 + HexDigitValue(s[2 * k])])

\* sub occurs in data at zero-based offset k
OccursAt(data, sub, k) ==
    /\ k >= 0
    /\ k + Len(sub) <= Len(data)
    /\ \A i \in 1..Len(sub) : data[k + i] = sub[i]

\* bytes.find(sub, start): the lowest offset at or after start, or -1
Find(data, sub, start) ==
    IF \E k \in start..Len(data) : OccursAt(data, sub, k)
    THEN CHOOSE k \in start..Len(data) :
             /\ OccursAt(data, sub, k)
             /\ \A j \in start..(k - 1) : ~OccursAt(data, sub, j)
    ELSE 0 - 1

\* chr(b) for 32 <= b <= 126 (the grave accent, which a string of this
\* language cannot hold, is written by its code point)
PrintableChars ==
    <<" ", "!", "\"", "#", "$", "%", "&", "'", "(", ")", "*", "+", ",", "-", ".", "/",
      "0", "1", "2", "3", "4", "5", "6", "7", "8", "9", ":", ";", "<", "=", ">", "?",
      "@", "A", "B", "C", "D", "E", "F", "G", "H", "I", "J", "K", "L", "M", "N", "O",
      "P", "Q", "R", "S", "T", "U", "V", "W", "X", "Y", "Z", "[", "\\", "]", "^", "_",
      "U+0060", "a", "b", "c", "d", "e", "f", "g", "h", "i", "j", "k", "l", "m", "n", "o",
      "p", "q", "r", "s", "t", "u", "v", "w", "x", "y", "z", "{", "|", "}", "~">>

\* the rendering that takes the space for a control character
AsciiOrDotAbove32(b) == IF 32 < b /\ b <= 126 THEN PrintableChars[b - 31] ELSE "."

\* chr(b) if 32 <= b <= 126 else '.'
AsciiOrDot(b) == IF 32 <= b /\ b <= 126 THEN PrintableChars[b - 31] ELSE "."

\* ''.join(chr(b) if 32 <= b <= 126 else '.' for b in data)
AsciiRow(data) == [i \in DOMAIN data |-> AsciiOrDot(data[i])]

\* data[a:b] for 0 <= a
Slice(data, a, b) == SubSeq(data, a + 1, Min(b, Len(data)))

\* bytes of context find_hex_pattern reports on each side of a match
ContextBytes == 16

\* the entry find_hex_pattern appends for a match at offset
MatchEntry(data, search_bytes, offset) ==
    LET context_start == Max(0, offset - ContextBytes)
        context_end == Min(Len(data), offset + Len(search_bytes) + ContextBytes)
        context_data == Slice(data, context_start, context_end)
    IN  [ offset        |-> offset,
          offset_hex    |-> Hex(offset),
          context       |-> Hexlify(context_data),
          context_ascii |-> AsciiRow(context_data) ]

\* SearchResponse(results=results, count=len(results), error=None)
SearchResponse(results) ==
    [results |-> results, count |-> Len(results), error |-> NoneStr]


\* the cursor after a match at offset
NextCursorByOne(offset, search_bytes) == offset + 1

\* offset += len(search_bytes)
NextCursor(offset, search_bytes) == offset + Len(search_bytes)

----------------------------------------------------------------------------
(* Byte inspection on its own: files of a few dozen bytes built from short *)
(* repeating runs, searched for short patterns.                            *)

\* the longest file searched or dumped
MaxFileLen == 36

\* the scan loop is followed for at most this many matches (it has more
\* only when it never ends)
ScanCap == MaxFileLen + 2

\* runs the files repeat: one letter, two letters, a run whose occurrences
\* of "aa" and "aba" overlap, and the signature followed by bytes around
\* the ends of the printable range
ByteRuns ==
    { <<97>>, <<97, 98>>, <<97, 97, 98, 97>>,
      SQLITE_SIGNATURE \o <<31, 32, 126, 127, 0, 255, 65, 92, 96, 10, 9, 48, 57, 122,
                            128, 1, 2, 3, 4, 5, 6, 7, 8, 11, 12, 13, 14, 15, 16, 17>> }

ByteFile(run, n, readable) ==
    [ name     |-> <<"d", "b">>,
      data     |-> [i \in 1..n |-> run[((i - 1) % Len(run)) + 1]],
      pad      |-> 0,
      readable |-> readable ]

\* hex patterns: empty, well formed in either case, odd, not hex
HexPatterns ==
    { <<>>, <<"6", "1">>, <<"6", "1", "6", "1">>, <<"6", "1", "6", "2", "6", "1">>,
      <<"6", "2">>, <<"0", "0">>, <<"7", "E">>, <<"7", "e", "7", "F">>,
      <<"6">>, <<"6", "1", "6">>, <<"6", "g">>, <<"z", "z">>, <<"6", "1", " ">>,
      Hexlify(SQLITE_SIGNATURE) }

InitBytes ==
    /\ pc = "ready"
    /\ \E run \in ByteRuns, n \in 0..MaxFileLen, readable \in BOOLEAN :
           /\ (~readable => n = Len(run))
           /\ file = ByteFile(run, n, readable)
    /\ provider = <<>>
    /\ parser = NewParser(file)
    /\ conns = <<>>
    /\ req = <<>>
    /\ result = NoResult
    /\ queries = <<>>

\* POST /api/search, up to the start of the scan loop of find_hex_pattern:
\* a pattern that does not decode, or a file that does not open, ends the
\* search with an error entry in the results
DoSearchPattern ==
    /\ pc = "ready"
    /\ \E pattern \in HexPatterns :
           LET u == Unhexlify(pattern)
           IN  IF u.exc # "none"
               THEN /\ req' = [op |-> "search_pattern", pattern |-> pattern]
                    /\ result' = Return(SearchResponse(<<[error |-> u.msg]>>))
                    /\ pc' = "searched"
               ELSE IF ~Readable(file)
               THEN /\ req' = [op |-> "search_pattern", pattern |-> pattern]
                    /\ result' = Return(SearchResponse(<<[error |-> "OSError"]>>))
                    /\ pc' = "searched"
               ELSE /\ req' = [ op |-> "search_pattern", pattern |-> pattern,
                                search_bytes |-> u.ret[1], offset |-> 0,
                                results |-> <<>> ]
                    /\ result' = result
                    /\ pc' = "scanning"
    /\ UNCHANGED <<file, provider, parser, conns, queries>>

\* one turn of the scan loop; when the pattern is found no more, the
\* endpoint wraps the results and closes the parser
DoScanStep ==
    /\ pc = "scanning"
    /\ Len(req.results) < ScanCap
    /\ LET data == ReadAll(file)
           offset == Find(data, req.search_bytes, req.offset)
       IN  IF offset = 0 - 1
           THEN /\ result' = Return(SearchResponse(req.results))
                /\ pc' = "searched"
                /\ req' = req
           ELSE /\ req' = [req EXCEPT
                              !.results = Append(@, MatchEntry(data, req.search_bytes, offset)),
                              !.offset = NextCursor(offset, req.search_bytes)]
                /\ pc' = pc
                /\ result' = result
    /\ UNCHANGED <<file, provider, parser, conns, queries>>



----------------------------------------------------------------------------
(* Claims about the pattern search *)

\* the search has ended after scanning the file for a decoded pattern
Scanned == pc = "searched" /\ "search_bytes" \in DOMAIN req

\* the offsets reported, in order
ReportedOffsets ==
    [i \in DOMAIN result.ret[1].results |-> result.ret[1].results[i].offset]

\* no occurrence of the pattern starts in from..(to - 1)
NoOccurrenceIn(from, to) ==
    \A k \in from..(to - 1) : ~OccursAt(ReadAll(file), req.search_bytes, k)

\* C15: for a non-empty pattern the offsets reported are exactly the greedy
\* left-to-right non-overlapping occurrences: each is an occurrence, the
\* first is the leftmost one, each next is the leftmost at or after the
\* previous offset plus the pattern length, they increase strictly, none is
\* left out after the last; the signature of a file that holds it only at
\* the start is reported once, at offset 0.
C15_GreedyNonOverlapping ==
    (Scanned /\ req.search_bytes # <<>>) =>
        LET offs == ReportedOffsets
            n == Len(req.search_bytes)
            size == FileSize(file)
        IN  /\ result.ret[1].count = Len(offs)
            /\ \A i \in DOMAIN offs : OccursAt(ReadAll(file), req.search_bytes, offs[i])
            /\ \A i \in DOMAIN offs :
                   IF i = 1 THEN NoOccurrenceIn(0, offs[1])
                   ELSE /\ offs[i] >= offs[i - 1] + n
                        /\ NoOccurrenceIn(offs[i - 1] + n, offs[i])
            /\ IF offs = <<>> THEN NoOccurrenceIn(0, size + 1)
               ELSE NoOccurrenceIn(offs[Len(offs)] + n, size + 1)
            /\ ( /\ req.search_bytes = SQLITE_SIGNATURE
                 /\ OccursAt(ReadAll(file), SQLITE_SIGNATURE, 0)
                 /\ NoOccurrenceIn(1, size + 1) ) => offs = <<0>>

\* "aa" in a run of five "a": occurrences at 0, 1, 2, 3, reported at 0 and 2
C15_Witness ==
    /\ Scanned
    /\ req.search_bytes = <<97, 97>>
    /\ ReadAll(file) = <<97, 97, 97, 97, 97>>
    /\ ReportedOffsets = <<0, 2>>


\* C16: a search with a hex string that does not decode (odd number of
\* digits, or a character that is no hex digit) gives the caller the error
\* as the error value of the response, with no matches and a match count
\* of 0, and the file is not scanned.
C16_BadHexError ==
    (pc = "searched" /\ Unhexlify(req.pattern).exc # "none") =>
        /\ result.exc = "none"
        /\ result.ret[1].error # NoneStr
        /\ result.ret[1].results = <<>>
        /\ result.ret[1].count = 0
        /\ "search_bytes" \notin DOMAIN req


\* the file bytes at zero-based offsets lo..(hi - 1)
FileBytes(lo, hi) == [i \in 1..(hi - lo) |-> ByteAt(file, lo + i - 1)]

\* c is the character of byte b when b is printable, the dot otherwise
RendersByte(c, b) ==
    IF 32 <= b /\ b <= 126
    THEN \E k \in DOMAIN PrintableChars : PrintableChars[k] = c /\ k + 31 = b
    ELSE c = "."

\* C17: for every match at offset o of a pattern of n bytes in a file of s
\* bytes, the context reported is the file bytes in [max(0, o-16),
\* min(s, o+n+16)): the hex context has two digits per byte and spells those
\* bytes, the ASCII context has one character per byte, the byte's own
\* character when 0x20 <= byte <= 0x7E and '.' otherwise.
C17_MatchContext ==
    Scanned =>
        \A i \in DOMAIN result.ret[1].results :
            LET entry == result.ret[1].results[i]
                lo == Max(0, entry.offset - 16)
                hi == Min(FileSize(file), entry.offset + Len(req.search_bytes) + 16)
                bytes == FileBytes(lo, hi)
            IN  /\ Len(entry.context) = 2 * (hi - lo)
                /\ Unhexlify(entry.context) = Return(bytes)
                /\ Len(entry.context_ascii) = hi - lo
                /\ \A j \in 1..(hi - lo) : RendersByte(entry.context_ascii[j], bytes[j])

\* a match at offset 18 of a file that ends at the match end plus 16: the
\* context is the 34 bytes from offset 2, the tilde shown, 0x7F a dot
C17_Witness ==
    /\ Scanned
    /\ FileSize(file) >= 36
    /\ req.search_bytes = <<126, 127>>
    /\ Len(result.ret[1].results) = 1
    /\ result.ret[1].results[1].offset = 18
    /\ Len(result.ret[1].results[1].context_ascii) = 34
    /\ result.ret[1].results[1].context_ascii[17] = "~"
    /\ result.ret[1].results[1].context_ascii[18] = "."
    /\ result.ret[1].results[1].context_ascii[12] = " "


----------------------------------------------------------------------------
(* Hex dump *)

\* bytes per row of a hex dump
RowBytes == 16

\* ' '.join(hex_row[j:j+2] for j in range(0, len(hex_row), 2))
RECURSIVE HexFormatted(_)
HexFormatted(row_data) ==
    IF row_data = <<>> THEN <<>>
    ELSE IF Len(row_data) = 1 THEN Hexlify(row_data)
    ELSE Hexlify(<<Head(row_data)>>) \o <<" ">> \o HexFormatted(Tail(row_data))

\* the rows of get_hex_dump: for i in range(0, len(data), 16)
DumpRows(data) ==
    [k \in 1..((Len(data) + RowBytes - 1) \div RowBytes) |->
        Slice(data, (k - 1) * RowBytes, k * RowBytes)]

\* f.seek(offset); f.read(length) on a buffered binary file: the bytes, or
\* the exception raised
SeekRead(f, offset, length) ==
    IF offset.type # "int" \/ length.type # "int" THEN Raise("TypeError", "not an integer")
    ELSE IF offset.val < 0 THEN Raise("OSError", "Invalid argument")
    ELSE IF length.val < 0 - 1
    THEN Raise("ValueError", "read length must be non-negative or -1")
    ELSE IF length.val = 0 - 1
    THEN Return(ReadBytes(f, offset.val, Max(0, FileSize(f) - offset.val)))
    ELSE Return(ReadBytes(f, offset.val, length.val))

\* SqliteForensicParser.get_hex_dump
GetHexDump(f, offset, length) ==
    LET read == IF ~Readable(f) THEN Raise("OSError", "open")
                ELSE SeekRead(f, offset, length)
        rows == DumpRows(read.ret[1])
    IN  IF read.exc # "none"
        THEN [ offset |-> offset, length |-> length, hex_data |-> <<>>,
               ascii_data |-> <<>>, error |-> read.msg ]
        ELSE [ offset |-> offset, length |-> length,
               hex_data |-> [k \in DOMAIN rows |-> HexFormatted(rows[k])],
               ascii_data |-> [k \in DOMAIN rows |-> AsciiRow(rows[k])],
               error |-> NoneStr ]

DecimalDigits == <<"0", "1", "2", "3", "4", "5", "6", "7", "8", "9">>

IsDecimal(s) ==
    /\ s # <<>>
    /\ \A i \in DOMAIN s : \E d \in DOMAIN DecimalDigits : DecimalDigits[d] = s[i]

RECURSIVE DecimalValue(_)
DecimalValue(s) ==
    IF s = <<>> THEN 0
    ELSE DecimalValue(SubSeq(s, 1, Len(s) - 1)) * 10
         + (CHOOSE d \in DOMAIN DecimalDigits : DecimalDigits[d] = s[Len(s)]) - 1

\* int(text) for a form field: an optional sign and decimal digits
ParseInt(s) ==
    IF s # <<>> /\ Head(s) \in {"-", "+"} /\ IsDecimal(Tail(s))
    THEN Return(IF Head(s) = "-" THEN 0 - DecimalValue(Tail(s)) ELSE DecimalValue(Tail(s)))
    ELSE IF IsDecimal(s) THEN Return(DecimalValue(s))
    ELSE Raise("ValueError", "invalid literal for int()")

\* the hex-dump endpoint: the arguments come as JSON values or, failing
\* that, as form fields run through int(); the dictionary of get_hex_dump
\* is returned through the HexDumpResponse model, whose offset and length
\* are integers
HexDumpEndpoint(f, r) ==
    LET offset == IF r.route = "json" THEN Return(r.offset) ELSE ParseInt(r.offset)
        length == IF r.route = "json" THEN Return(r.length) ELSE ParseInt(r.length)
    IN  IF offset.exc # "none" \/ length.exc # "none"
        THEN Raise("HTTPException", "Error processing file")
        ELSE LET dump == GetHexDump(f, IF r.route = "json" THEN r.offset
                                       ELSE PyInt(offset.ret[1]),
                                    IF r.route = "json" THEN r.length
                                    ELSE PyInt(length.ret[1]))
             IN  IF dump.offset.type # "int" \/ dump.length.type # "int"
                 THEN Raise("ResponseValidationError", "not an integer")
                 ELSE Return([ offset |-> dump.offset.val, length |-> dump.length.val,
                               hex_data |-> dump.hex_data, ascii_data |-> dump.ascii_data,
                               error |-> dump.error ])

DumpOffsets == {0 - 1, 0, 1, 16, 17, MaxFileLen - 1, MaxFileLen, MaxFileLen + 1}
DumpLengths == {0 - 2, 0 - 1, 0, 1, 16, 17, 33, 256}

\* the arguments of a hex-dump request, as JSON values or as form fields
DumpRequests ==
    [ route : {"json"},
      offset : { PyInt(n) : n \in DumpOffsets } \cup { PyStr(<<"a", "b", "c">>) },
      length : { PyInt(n) : n \in DumpLengths } \cup { PyStr(<<"x">>) } ]
    \cup
    [ route : {"form"},
      offset : { <<"0">>, <<"-", "1">>, <<"1", "7">>, <<"a", "b", "c">>, <<>> },
      length : { <<"0">>, <<"-", "1">>, <<"1", "6">>, <<"3", "3">>, <<"x">> } ]

\* POST /api/hex_dump
DoGetHexDump ==
    /\ pc = "ready"
    /\ \E r \in DumpRequests :
           /\ req' = [op |-> "get_hex_dump", args |-> r]
           /\ result' = HexDumpEndpoint(file, r)
    /\ pc' = "dumped"
    /\ UNCHANGED <<file, provider, parser, conns, queries>>

----------------------------------------------------------------------------
(* Block entropy *)

\* calculate_entropy: the Shannon entropy of data is a function of how
\* often each byte value occurs in it, which is what is kept of it here;
\* empty data gives 0
CalculateEntropy(data) ==
    IF data = <<>> THEN <<>>
    ELSE [b \in { data[i] : i \in DOMAIN data } |->
             Cardinality({ i \in DOMAIN data : data[i] = b })]

\* the block size cut down also for a file of exactly block_size bytes
EffectiveBlockSizeInclusive(file_size, block_size) ==
    IF file_size <= block_size THEN Max(file_size \div 10, 1) ELSE block_size

\* the block size the profile is cut with
EffectiveBlockSize(file_size, block_size) ==
    IF file_size < block_size THEN Max(file_size \div 10, 1) ELSE block_size

\* range(0, file_size, step) for step > 0
BlockOffsets(file_size, step) ==
    [k \in 1..((file_size + step - 1) \div step) |-> (k - 1) * step]

\* generate_entropy, from the construction of the parser on
GenerateEntropy(f, requested) ==
    LET file_data == ReadAll(f)
        file_size == Len(file_data)
        block_size == EffectiveBlockSize(file_size, requested)
        offsets == IF block_size > 0 THEN BlockOffsets(file_size, block_size) ELSE <<>>
    IN  IF ~Readable(f)
        THEN Raise("HTTPException", "Error calculating entropy")
        ELSE IF block_size = 0
        THEN Raise("HTTPException", "Error calculating entropy")
        ELSE Return([ overall |-> CalculateEntropy(file_data),
                      blocks  |-> SelectSeq(
                                      [k \in DOMAIN offsets |->
                                          [ offset  |-> offsets[k],
                                            entropy |-> CalculateEntropy(
                                                Slice(file_data, offsets[k],
                                                      Min(offsets[k] + block_size, file_size))) ]],
                                      LAMBDA block : block.entropy # <<>>) ])

BlockSizes == {0 - 1, 0, 1, 3, 10, 16, 1024}

\* POST /api/visualization/entropy
DoGenerateEntropy ==
    /\ pc = "ready"
    /\ \E block_size \in BlockSizes :
           /\ req' = [op |-> "generate_entropy", block_size |-> block_size]
           /\ result' = GenerateEntropy(file, block_size)
    /\ pc' = "profiled"
    /\ UNCHANGED <<file, provider, parser, conns, queries>>

NextBytes == DoSearchPattern \/ DoScanStep \/ DoGetHexDump \/ DoGenerateEntropy

SpecBytes == InitBytes /\ [][NextBytes]_vars


----------------------------------------------------------------------------
(* Claims about the hex dump *)

\* the hex-dump endpoint has answered a request for a readable file
Dumped == pc = "dumped" /\ result.exc = "none" /\ Readable(file)

NotSpace(c) == c # " "

\* the bytes a row of hex pairs spells
RowDecoded(hex_row) == Unhexlify(SelectSeq(hex_row, NotSpace)).ret[1]

RECURSIVE RowsDecoded(_)
RowsDecoded(hex_data) ==
    IF hex_data = <<>> THEN <<>>
    ELSE RowsDecoded(SubSeq(hex_data, 1, Len(hex_data) - 1))
         \o RowDecoded(hex_data[Len(hex_data)])

\* C18: for every offset >= 0 and every length the endpoint accepts, the
\* dump renders exactly the file bytes in [offset, min(offset + length,
\* fileSize)) and never more than length bytes; hex_data and ascii_data
\* have as many rows, every row but the last covers 16 bytes, each ASCII
\* row has one character per byte of its hex row, and when offset >=
\* fileSize both lists are empty and no error is set.
C18_HexDumpWindow ==
    (Dumped /\ result.ret[1].offset >= 0) =>
        LET dump == result.ret[1]
            bytes == RowsDecoded(dump.hex_data)
        IN  /\ bytes = FileBytes(dump.offset, Min(dump.offset + dump.length, FileSize(file)))
            /\ Len(bytes) <= dump.length
            /\ Len(dump.hex_data) = Len(dump.ascii_data)
            /\ \A k \in DOMAIN dump.hex_data :
                   /\ k < Len(dump.hex_data) => Len(RowDecoded(dump.hex_data[k])) = 16
                   /\ Len(RowDecoded(dump.hex_data[k])) \in 1..16
                   /\ Len(dump.ascii_data[k]) = Len(RowDecoded(dump.hex_data[k]))
                   /\ Len(dump.hex_data[k]) = 3 * Len(dump.ascii_data[k]) - 1
            /\ dump.offset >= FileSize(file) =>
                   /\ dump.hex_data = <<>> /\ dump.ascii_data = <<>>
                   /\ dump.error = NoneStr

----------------------------------------------------------------------------
(* Claims about errors of the inspection operations *)

\* C19: the hex dump, the pattern search and the block-entropy profile
\* never raise to their caller: whatever the offset, the length, the block
\* size, and whether or not the file can be read, the caller gets a result
\* of the normal shape.
C19_NeverRaises ==
    pc \in {"searched", "dumped", "profiled"} => result.exc = "none"


\* ---------------------------------------------------------------------
\* Hashing: files whose sizes lie around the multiples of the chunk size
\* ---------------------------------------------------------------------

MaxChunks == 3

HashSizes ==
    { s \in { k * ChunkSize + d : k \in 0..MaxChunks, d \in {-1, 0, 1, 7} } : s >= 0 }

\* lengths of the explicit leading bytes; the longest crosses a chunk boundary
HashPrefixes == {0, 1, 5, ChunkSize + 2}

HashNames == { <<"a">>, <<"d", "b">>, <<"s", "m", "s", ".", "d", "b">> }

HashFile(name, run, n, size, readable) ==
    [ name     |-> name,
      data     |-> [i \in 1..n |-> run[((i - 1) % Len(run)) + 1]],
      pad      |-> size - n,
      readable |-> readable ]

InitHash ==
    /\ pc = "ready"
    /\ \E name \in HashNames, run \in ByteRuns, n \in HashPrefixes,
          size \in HashSizes, readable \in BOOLEAN :
           /\ n <= size
           /\ (~readable => (n = 1 /\ size = 1))
           /\ file = HashFile(name, run, n, size, readable)
    /\ provider = <<>>
    /\ parser = NewParser(file)
    /\ conns = <<>>
    /\ req = <<>>
    /\ result = NoResult
    /\ queries = <<>>

\* parser.calculate_hashes(); req keeps the reads the loop made
DoCalculateHashes ==
    /\ pc = "ready"
    /\ LET r == CalculateHashes(parser, file)
       IN  /\ parser' = r.p
           /\ result' = r.out
    /\ req' = [ op    |-> "calculate_hashes",
                reads |-> IF Readable(file) THEN ChunkReads(file, 0) ELSE <<>> ]
    /\ pc' = "hashed"
    /\ UNCHANGED <<file, provider, conns, queries>>

NextHash == DoCalculateHashes

SpecHash == InitHash /\ [][NextHash]_vars

\* ---------------------------------------------------------------------
\* Claims on hashing
\* ---------------------------------------------------------------------

Hashed == pc = "hashed" /\ result.exc = "none"

\* byte j (from 0) of a run of bytes
ByteOf(bytes, j) == IF j < Len(bytes.data) THEN bytes.data[j + 1] ELSE 0

\* C20: calculate_hashes feeds each digest the bytes of the file exactly once
\* and in order: the reads start at 0, each is at most 4096 bytes and begins
\* where the one before ended, every chunk holds the bytes of the file at its
\* place, only the last read is empty and it is at the end of the file; the
\* three digests are those of the content of the file, whatever its size
\* and whatever its name.
C20_ChunkedDigest ==
    Hashed =>
        LET reads == req.reads
            last == Len(reads)
        IN  /\ last >= 1
            /\ reads[1].offset = 0
            /\ \A i \in 1..last :
                   /\ Size(reads[i].chunk) <= ChunkSize
                   /\ (Size(reads[i].chunk) = 0) <=> (i = last)
                   /\ i < last => reads[i + 1].offset = reads[i].offset + Size(reads[i].chunk)
                   /\ i < last - 1 => Size(reads[i].chunk) = ChunkSize
                   /\ \A j \in 0..(Size(reads[i].chunk) - 1) :
                          ByteOf(reads[i].chunk, j) = ByteOf(Content(file), reads[i].offset + j)
            /\ reads[last].offset = FileSize(file)
            /\ parser.md5_hash = Digest("md5", Content(file))
            /\ parser.sha1_hash = Digest("sha1", Content(file))
            /\ parser.sha256_hash = Digest("sha256", Content(file))
            /\ result.ret[1] = [ md5 |-> parser.md5_hash, sha1 |-> parser.sha1_hash,
                                 sha256 |-> parser.sha256_hash ]

\* a file of exactly two chunks whose first chunk boundary lies inside its
\* explicit bytes has been hashed with two full reads and the empty one
C20_Witness ==
    /\ Hashed
    /\ FileSize(file) = 2 * ChunkSize
    /\ Len(file.data) > ChunkSize
    /\ Len(req.reads) = 3
    /\ parser.sha256_hash = Digest("sha256", Content(file))

\* the empty file has been hashed with the single empty read
C20_EmptyFileHashed ==
    /\ Hashed
    /\ FileSize(file) = 0
    /\ Len(req.reads) = 1
    /\ parser.md5_hash = Digest("md5", EmptyBytes)


\* ---------------------------------------------------------------------
\* Claims on the block-entropy profile
\* ---------------------------------------------------------------------

Profiled == pc = "profiled" /\ Readable(file) /\ req.block_size >= 1

\* the block size the profile of a file of s bytes is to be cut with
WindowSize(s, requested) ==
    IF s >= requested THEN requested
    ELSE IF s \div 10 >= 1 THEN s \div 10 ELSE 1

\* C21: for every file size s and requested block size >= 1 the profile
\* lists one block per window of the partition of the file into consecutive
\* windows of b bytes, b being the requested size when s is at least that
\* and max(s div 10, 1) otherwise: the offsets are 0, b, 2b, ... below s,
\* the windows cover the file, every block is the (non-empty) window at its
\* offset, and a file of 10 bytes or more that is smaller than the requested
\* size gets at least 10 blocks.
C21_EntropyPartition ==
    Profiled =>
        /\ result.exc = "none"
        /\ LET s == FileSize(file)
               b == WindowSize(s, req.block_size)
               blocks == result.ret[1].blocks
           IN  /\ \A k \in 1..Len(blocks) :
                      /\ blocks[k].offset = (k - 1) * b
                      /\ blocks[k].offset < s
                      /\ blocks[k].entropy # <<>>
                      /\ blocks[k].entropy =
                             CalculateEntropy(Slice(ReadAll(file), blocks[k].offset,
                                                    Min(blocks[k].offset + b, s)))
               /\ Len(blocks) * b >= s
               /\ (s = 0) => (blocks = <<>>)
               /\ (10 <= s /\ s < req.block_size) => Len(blocks) >= 10

\* a file of 25 bytes profiled with the default block size is cut into
\* twelve windows of 2 bytes and a last one of 1 byte
C21_Witness ==
    /\ Profiled
    /\ result.exc = "none"
    /\ FileSize(file) = 25
    /\ req.block_size = 1024
    /\ Len(result.ret[1].blocks) = 13
    /\ result.ret[1].blocks[13].offset = 24


----------------------------------------------------------------------------
(* The analysis of the catalog: analyze_database derives a list of issues  *)
(* from the tables of the schema and their sample rows, and a list of      *)
(* recommendations from the metadata and the issues.                       *)

\* row count above which a table without an index is reported
IndexThreshold == 1000

\* c < ' ' and c != '\t' and c != '\n', c a code point
IsControl(c) == c < 32 /\ c # 9 /\ c # 10

\* isinstance(value, str) and any(... for c in value); the text of a sample
\* value is kept as its code points
IsBinaryText(value) ==
    value.type = "str" /\ \E i \in DOMAIN value.val : IsControl(value.val[i])

\* the issues of one sample row, a sequence of <<column, value>> in column
\* order: the loop over the columns breaks at the first offending one
SampleIssues(table_name, sample) ==
    LET offending == { i \in DOMAIN sample : IsBinaryText(sample[i][2]) }
    IN  IF offending = {} THEN <<>>
        ELSE LET first == CHOOSE i \in offending : \A j \in offending : i <= j
             IN  << [ type |-> "binary_in_text", severity |-> "medium",
                      table |-> table_name, column |-> sample[first][1] ] >>

RECURSIVE SamplesIssues(_, _)
\* the loop over the sample rows of one table
SamplesIssues(table_name, samples) ==
    IF samples = <<>> THEN <<>>
    ELSE SampleIssues(table_name, Head(samples)) \o SamplesIssues(table_name, Tail(samples))

\* the test for a missing index that a table of 1000 rows passes as well
LacksIndexFromThreshold(table_info) ==
    table_info.indices = <<>> /\ table_info.row_count >= IndexThreshold

\* not table_info.get('indices') and table_info['row_count'] > 1000
LacksIndex(table_info) ==
    table_info.indices = <<>> /\ table_info.row_count > IndexThreshold

\* the issues of one table, in the order the loop body appends them
TableIssues(table_name, table_info) ==
    (IF LacksIndex(table_info)
     THEN << [ type |-> "performance", severity |-> "medium", table |-> table_name,
               column |-> NoneStr ] >>
     ELSE <<>>)
    \o (IF table_info.row_count = 0
        THEN << [ type |-> "empty_table", severity |-> "low", table |-> table_name,
                  column |-> NoneStr ] >>
        ELSE <<>>)
    \o SamplesIssues(table_name, table_info.sample_rows)

RECURSIVE TablesIssues(_, _)
\* the loop over self.schema['tables'].items()
TablesIssues(tables, names) ==
    IF names = <<>> THEN <<>>
    ELSE TableIssues(Head(names), tables[Head(names)]) \o TablesIssues(tables, Tail(names))

\* schema_issues of analyze_database
SchemaIssues(p) ==
    IF SchemaTables(p) = {}
    THEN << [ type |-> "error", severity |-> "high", table |-> NoneStr, column |-> NoneStr ] >>
    ELSE TablesIssues(p.schema[1].tables, SeqOfSet(SchemaTables(p)))

\* artifact_insights of analyze_database: the kinds of the entries appended
ArtifactInsights(p, prov) ==
    LET tables == SchemaTables(p)
        answered(n) == /\ ProviderField(prov, "insight_ok", TRUE)
                       /\ n \in prov.tables
                       /\ prov.row_count[n] > 0
    IN  IF p.connection = NoConnection THEN <<>>
        ELSE IF p.artifact_type = "web_browser_history"
        THEN IF "urls" \in tables /\ "visits" \in tables /\ answered("urls")
             THEN <<"browsing_history">> ELSE <<>>
        ELSE IF p.artifact_type = "message_store"
        THEN IF "messages" \in tables /\ answered("messages")
             THEN <<"message_history">> ELSE <<>>
        ELSE <<>>

\* the investigation entry that is added for message stores as well as, and
\* not instead of, the one for browsing histories
MessageEntryAlways(artifact_type) ==
    (IF artifact_type = "web_browser_history"
     THEN << [type |-> "investigation", priority |-> "medium"] >> ELSE <<>>)
    \o (IF artifact_type \in {"message_store", "web_browser_history"}
        THEN << [type |-> "investigation", priority |-> "high"] >> ELSE <<>>)

\* the if/elif on metadata.get('artifact_type')
InvestigationEntry(artifact_type) ==
    IF artifact_type = "web_browser_history"
    THEN << [type |-> "investigation", priority |-> "medium"] >>
    ELSE IF artifact_type = "message_store"
    THEN << [type |-> "investigation", priority |-> "high"] >>
    ELSE <<>>

\* SqliteForensicParser.generate_recommendations
GenerateRecommendations(metadata, schema_issues) ==
    (IF metadata.header = NoneDict \/ metadata.tables = {}
     THEN << [type |-> "data_recovery", priority |-> "high"] >> ELSE <<>>)
    \o (IF metadata.deleted_records # <<>>
        THEN << [type |-> "data_recovery", priority |-> "medium"] >> ELSE <<>>)
    \o InvestigationEntry(metadata.artifact_type)
    \o (IF \E i \in DOMAIN schema_issues : schema_issues[i].severity = "high"
        THEN << [type |-> "technical", priority |-> "medium"] >> ELSE <<>>)

\* SqliteForensicParser.analyze_database
AnalyzeDatabase(p0, prov, cs, f) ==
    Then(GetForensicMetadata(p0, prov, cs, f), LAMBDA m :
    IF m.out.exc # "none" THEN m
    ELSE Then(SchemaIssues(m.p), LAMBDA issues :
         [ p   |-> m.p,
           c   |-> m.c,
           out |-> Return([ forensic_metadata |-> m.out.ret[1],
                            schema_issues     |-> issues,
                            artifact_insights |-> ArtifactInsights(m.p, prov),
                            recommendations   |->
                                GenerateRecommendations(m.out.ret[1], issues) ]) ]))


----------------------------------------------------------------------------
(* Catalogs under analysis: tables with and without rows, indices and      *)
(* triggers, sample values with control characters, and a provider that    *)
(* may fail on one table at any of its three queries.                      *)

\* rows of a table the provider holds ready beyond the sample limit
MaxExtraRows == 1

RowKinds == {"clean", "blob", "ctl_note", "ctl_both"}

\* one row, as <<column, value>> in column order; text as code points
SampleRow(kind) ==
    << <<"id", PyInt(1)>>,
       <<"name", [type |-> "str",
                  val |-> IF kind = "ctl_both" THEN <<97, 31>> ELSE <<97, 98>>]>>,
       <<"note", IF kind = "blob" THEN [type |-> "bytes", val |-> <<0, 1>>]
                 ELSE [type |-> "str",
                       val |-> IF kind = "clean" THEN <<97, 9, 98, 10>>
                               ELSE IF kind = "ctl_note" THEN <<97, 1>>
                               ELSE <<0>>]>> >>

ContentKinds ==
    {"empty", "one", "blob", "both_columns", "two_rows", "beyond_sample", "threshold", "large"}

PlainContentKinds == {"empty", "one", "large"}

\* COUNT(*) of a table of the kind
ContentCount(kind) ==
    CASE kind = "empty" -> 0
      [] kind \in {"one", "blob", "both_columns"} -> 1
      [] kind = "two_rows" -> 2
      [] kind = "beyond_sample" -> SampleLimit + MaxExtraRows
      [] kind = "threshold" -> IndexThreshold
      [] OTHER -> IndexThreshold + 1

\* the leading rows of a table of the kind
ContentRows(kind) ==
    CASE kind = "empty" -> <<>>
      [] kind = "one" -> <<SampleRow("clean")>>
      [] kind = "blob" -> <<SampleRow("blob")>>
      [] kind = "both_columns" -> <<SampleRow("ctl_both")>>
      [] kind = "two_rows" -> <<SampleRow("ctl_note"), SampleRow("ctl_both")>>
      [] kind = "beyond_sample" ->
            [i \in 1..(SampleLimit + MaxExtraRows) |->
                IF i <= SampleLimit THEN SampleRow("clean") ELSE SampleRow("ctl_note")]
      [] kind = "threshold" -> [i \in 1..(SampleLimit + MaxExtraRows) |-> SampleRow("clean")]
      [] OTHER -> [i \in 1..(SampleLimit + MaxExtraRows) |->
                      IF i = 1 THEN SampleRow("ctl_note") ELSE SampleRow("clean")]

AnalysisCatalogs ==
    { {}, {"sqlite_sequence"}, {"notes"}, {"urls", "visits"},
      {"messages", "notes", "sqlite_sequence"}, {"urls", "sqliteman"} }

\* tables whose content varies over every kind
VariedTables == {"urls", "notes"}

\* the rows of sqlite_master of type index, and of type trigger
IndexLayouts ==
    { <<>>,
      << [name |-> "sqlite_autoindex_urls_1", tbl_name |-> "urls"],
         [name |-> "sqlite_autoindex_urls_1", tbl_name |-> "notes"] >>,
      << [name |-> "idx_a", tbl_name |-> "urls"], [name |-> "idx_b", tbl_name |-> "notes"],
         [name |-> "idx_c", tbl_name |-> "urls"], [name |-> "idx_d", tbl_name |-> "ghost"] >> }

TriggerLayouts ==
    { <<>>, << [name |-> "sqlite_stat1", tbl_name |-> "notes"],
               [name |-> "trg_a", tbl_name |-> "visits"] >> }

AnalysisFailures ==
    { "none", "connect", "master", "pragma", "count", "sample", "pragma_other", "freelist" }

AnalysisProvider(T, content, failure, indices, triggers) ==
    [ connectable   |-> failure # "connect",
      master_ok     |-> failure # "master",
      pragma_ok     |-> TRUE,
      count_ok      |-> TRUE,
      select_ok     |-> TRUE,
      freelist_ok   |-> failure # "freelist",
      insight_ok    |-> failure # "sample",
      tables        |-> T,
      broken        |-> {},
      pragma_broken |-> IF failure = "pragma" THEN T \cap VariedTables
                        ELSE IF failure = "pragma_other" THEN T \ VariedTables
                        ELSE {},
      count_broken  |-> IF failure = "count" THEN T \cap VariedTables ELSE {},
      sample_broken |-> IF failure = "sample" THEN T \cap VariedTables ELSE {},
      row_count     |-> [t \in T |-> ContentCount(content[t])],
      columns       |-> [t \in T |-> <<"id", "name", "note">>],
      rows          |-> [t \in T |-> ContentRows(content[t])],
      indices       |-> indices,
      triggers      |-> triggers ]

AnalysisFiles ==
    { SessionFile("database", <<"d", "a", "t", "a", ".", "b", "i", "n">>, TRUE),
      [ DeletedFile(<<0, 64>>, 3, 0, 192) EXCEPT !.name = <<"a", ".", "d", "b">> ],
      SessionFile("truncated", <<"d", "a", "t", "a", ".", "b", "i", "n">>, TRUE) }

InitAnalysis ==
    /\ pc = "ready"
    /\ file \in AnalysisFiles
    /\ \E T \in AnalysisCatalogs, failure \in AnalysisFailures,
          indices \in IndexLayouts, triggers \in TriggerLayouts :
         \E content \in [T -> ContentKinds] :
           /\ \A t \in T \ VariedTables : content[t] \in PlainContentKinds
           /\ (triggers # <<>> => indices # <<>>)
           /\ provider = AnalysisProvider(T, content, failure, indices, triggers)
    /\ parser = NewParser(file)
    /\ conns = <<>>
    /\ req = <<>>
    /\ result = NoResult
    /\ queries = <<>>

\* parser.analyze_database()
DoAnalyzeDatabase ==
    /\ pc = "ready"
    /\ LET a == AnalyzeDatabase(parser, provider, conns, file)
       IN  /\ parser' = a.p
           /\ conns' = a.c
           /\ result' = a.out
    /\ req' = [op |-> "analyze_database"]
    /\ pc' = "analyzed"
    /\ UNCHANGED <<file, provider, queries>>

NextAnalysis == DoExtractSchema \/ DoAnalyzeDatabase

SpecAnalysis == InitAnalysis /\ [][NextAnalysis]_vars


----------------------------------------------------------------------------
(* Claims on the catalog and its analysis *)

Extracted == parser.schema # NoneDict

\* the names of the rows of sqlite_master of one type
MasterNames(rows) == { rows[i].name : i \in DOMAIN rows }

\* C22: schema extraction isolates the failures of single tables: the table
\* map holds exactly the tables without the sqlite_ prefix whose column
\* query and count query both succeeded, each with its columns and row
\* count; a failing table does not stop the extraction of the tables,
\* indices and triggers after it; a table whose sample query fails is there
\* with an empty sample; no table has more than 5 sample rows.
C22_SchemaIsolation ==
    Extracted =>
        LET schema == parser.schema[1]
        IN  /\ DOMAIN schema.tables =
                   { n \in provider.tables :
                       /\ ~IsInternalName(n)
                       /\ n \notin provider.pragma_broken
                       /\ n \notin provider.count_broken }
            /\ \A n \in DOMAIN schema.tables :
                   /\ schema.tables[n].row_count = provider.row_count[n]
                   /\ schema.tables[n].columns = provider.columns[n]
                   /\ Len(schema.tables[n].sample_rows) <= 5
                   /\ n \in provider.sample_broken => schema.tables[n].sample_rows = <<>>
                   /\ \A i \in DOMAIN schema.tables[n].sample_rows :
                          schema.tables[n].sample_rows[i] = provider.rows[n][i]
            /\ DOMAIN schema.indices =
                   { x \in MasterNames(provider.indices) : ~IsInternalName(x) }
            /\ DOMAIN schema.triggers = MasterNames(provider.triggers)

\* a catalog was extracted in which the count query of notes failed: notes
\* is absent, messages and the indices after it are there
C22_Witness ==
    /\ Extracted
    /\ provider.count_broken = {"notes"}
    /\ DOMAIN parser.schema[1].tables = {"messages"}
    /\ "idx_d" \in DOMAIN parser.schema[1].indices
    /\ "trg_a" \in DOMAIN parser.schema[1].triggers

\* a table with rows whose sample query failed is in the catalog with its
\* row count and no sample
C22_SampleFailureKept ==
    /\ Extracted
    /\ "urls" \in provider.sample_broken
    /\ "urls" \in DOMAIN parser.schema[1].tables
    /\ parser.schema[1].tables["urls"].row_count = SampleLimit + MaxExtraRows
    /\ parser.schema[1].tables["urls"].sample_rows = <<>>


Analyzed == pc = "analyzed" /\ result.exc = "none"

\* the positions of the issues of one type that name one table
IssuesOf(issues, type, table) ==
    { i \in DOMAIN issues : issues[i].type = type /\ issues[i].table = table }

\* C23: the issues list of analyze_database never holds two binary_in_text
\* issues naming the same table.
C23_BinaryOncePerTable ==
    Analyzed =>
        \A n \in SchemaTables(parser) :
            Cardinality(IssuesOf(result.ret[1].schema_issues, "binary_in_text", n)) <= 1

\* within one sample row only the first offending column is reported
C23_FirstColumnOfRow ==
    Analyzed =>
        \A n \in SchemaTables(parser) :
            Cardinality(IssuesOf(result.ret[1].schema_issues, "binary_in_text", n))
                <= Len(parser.schema[1].tables[n].sample_rows)

\* a table is attached to an index of the catalog
HasIndex(n) ==
    \E i \in DOMAIN provider.indices :
        provider.indices[i].tbl_name = n /\ ~IsInternalName(provider.indices[i].name)

\* C24: the issues list holds the single no-tables issue of severity high
\* exactly when the catalog has no tables, and then nothing else; otherwise
\* it holds, for each table, one performance issue of severity medium
\* exactly when the table has no attached index and more than 1000 rows, and
\* one empty_table issue of severity low exactly when it has no rows.
C24_IssueRules ==
    Analyzed =>
        LET issues == result.ret[1].schema_issues
            tables == SchemaTables(parser)
        IN  /\ (tables = {}) =>
                   (Len(issues) = 1 /\ issues[1].type = "error" /\ issues[1].severity = "high")
            /\ (tables # {}) =>
                   /\ \A i \in DOMAIN issues :
                          /\ issues[i].type \in {"performance", "empty_table", "binary_in_text"}
                          /\ issues[i].table \in tables
                          /\ issues[i].type = "performance" => issues[i].severity = "medium"
                          /\ issues[i].type = "empty_table" => issues[i].severity = "low"
                   /\ \A n \in tables :
                          /\ Cardinality(IssuesOf(issues, "performance", n)) =
                                 IF ~HasIndex(n) /\ provider.row_count[n] > 1000 THEN 1 ELSE 0
                          /\ Cardinality(IssuesOf(issues, "empty_table", n)) =
                                 IF provider.row_count[n] = 0 THEN 1 ELSE 0

\* a catalog was analyzed with a table of 1001 rows, reported, and a table
\* of 1000 rows, not reported, neither with an index
C24_Witness ==
    /\ Analyzed
    /\ SchemaTables(parser) = {"messages", "notes"}
    /\ provider.indices = <<>>
    /\ provider.row_count["messages"] = 1001
    /\ provider.row_count["notes"] = 1000
    /\ IssuesOf(result.ret[1].schema_issues, "performance", "messages") # {}
    /\ IssuesOf(result.ret[1].schema_issues, "performance", "notes") = {}

\* the entry of the rule table when its condition holds
Entry(condition, type, priority) ==
    IF condition THEN << [type |-> type, priority |-> priority] >> ELSE <<>>

\* C25: the recommendations are the entries, in this order, whose condition
\* holds: data_recovery/high (no header or no tables), data_recovery/medium
\* (deletion signals), investigation/medium (web_browser_history) or else
\* investigation/high (message_store), technical/medium (an issue of
\* severity high); none appears twice and at most one is an investigation.
C25_RecommendationTable ==
    Analyzed =>
        LET recs == result.ret[1].recommendations
            issues == result.ret[1].schema_issues
            kind == parser.artifact_type
        IN  /\ recs =
                   Entry(parser.header_data = NoneDict \/ SchemaTables(parser) = {},
                         "data_recovery", "high")
                   \o Entry(parser.deleted_records # <<>>, "data_recovery", "medium")
                   \o Entry(kind = "web_browser_history", "investigation", "medium")
                   \o Entry(kind # "web_browser_history" /\ kind = "message_store",
                            "investigation", "high")
                   \o Entry(\E i \in DOMAIN issues : issues[i].severity = "high",
                            "technical", "medium")
            /\ \A i, j \in DOMAIN recs : recs[i] = recs[j] => i = j
            /\ Cardinality({ i \in DOMAIN recs : recs[i].type = "investigation" }) <= 1

\* a browsing history with deletion signals was analyzed: two entries
C25_Witness ==
    /\ Analyzed
    /\ parser.artifact_type = "web_browser_history"
    /\ parser.deleted_records # <<>>
    /\ result.ret[1].recommendations =
           << [type |-> "data_recovery", priority |-> "medium"],
              [type |-> "investigation", priority |-> "medium"] >>

\* a file without tables was analyzed: the first and the last entry
C25_NoTablesAnalyzed ==
    /\ Analyzed
    /\ SchemaTables(parser) = {}
    /\ parser.deleted_records = <<>>
    /\ result.ret[1].recommendations =
           << [type |-> "data_recovery", priority |-> "high"],
              [type |-> "technical", priority |-> "medium"] >>


----------------------------------------------------------------------------
(* Claims on the validation response *)

Validated == pc = "returned" /\ req.op = "validate_db" /\ result.exc = "none"

\* the response carries the digests and the size of the file
CarriesDigests(resp) ==
    /\ resp.md5_hash # NoneDict
    /\ resp.sha1_hash # NoneDict
    /\ resp.sha256_hash # NoneDict
    /\ resp.file_size = <<FileSize(file)>>

\* C26: once hashing has succeeded, every response of the validation flow
\* that reports a failure of a later stage (header decode, connection,
\* schema extraction with a provider error or without tables) carries the
\* three digests and the file size.
C26_PartialDataKept ==
    (Validated /\ Readable(file) /\ ~result.ret[1].is_valid) =>
        CarriesDigests(result.ret[1])


----------------------------------------------------------------------------
(* Claims on the two header decode paths *)

\* both paths have decoded the header of the file
BothDecoded == ParsedOk /\ req # <<>> /\ req.metadata.fields # <<>>

\* the four bytes of the header field at offset o
FieldBytes(o) == SubSeq(ReadBytes(file, 0, HeaderLen), o + 1, o + 4)

\* the field at offset o stores a value of 1..255 in canonical form
IsCanonicalByte(header, o) ==
    header[o + 1] = 0 /\ header[o + 2] = 0 /\ header[o + 3] = 0 /\ header[o + 4] >= 1

\* the four bytes of the field at offset o are zero
IsZeroField(header, o) == \A k \in 1..4 : header[o + k] = 0

\* what holds of the two decodings of one header
DecodeWidths(header, hd, encoding, fields) ==
    /\ hd.schema_format.val = header[44 + 1]
    /\ encoding = DecodeEncoding(header[56 + 1])
    /\ hd.schema_format.val = fields.schema_format => IsZeroField(header, 44)
    /\ header[56 + 1] = fields.text_encoding => IsZeroField(header, 56)
    /\ IsCanonicalByte(header, 44) =>
           (hd.schema_format.val = 0 /\ fields.schema_format = header[44 + 4])
    /\ IsCanonicalByte(header, 56) =>
           (encoding = "Unknown" /\ hd.text_encoding.val = "Unknown"
            /\ fields.text_encoding = header[56 + 4])

\* C27: parse_header reads schema_format (offset 44) and the text-encoding
\* selector (offset 56) as the single byte at the offset, and
\* extract_forensic_metadata as the big-endian integer of the four bytes
\* there: the two readings of a field are equal only when its four bytes are
\* zero, and for a field storing v in 1..255 in canonical form the first
\* path reads 0 (the encoding decodes to Unknown) and the second reads v.
C27_DecodeWidths ==
    BothDecoded =>
        DecodeWidths(file.data, parser.header_data[1], parser.encoding, req.metadata.fields[1])

\* a header storing text encoding 1 (UTF-8) in canonical form was decoded by
\* both paths: Unknown on the first, 1 on the second
C27_Witness ==
    /\ BothDecoded
    /\ FieldBytes(56) = <<0, 0, 0, 1>>
    /\ parser.encoding = "Unknown"
    /\ req.metadata.fields[1].text_encoding = 1


----------------------------------------------------------------------------
(* Claims on the termination of the pattern search *)

\* C28: the search cursor strictly increases after every reported match, so
\* that the scan of find_hex_pattern reaches the end of the file for every
\* pattern that decodes, the empty pattern included.
C28_CursorAdvances ==
    [][(pc = "scanning" /\ pc' = "scanning") => req'.offset > req.offset]_vars

\* the cursor advances after every match of a pattern of one byte or more
C28_CursorAdvancesNonEmpty ==
    [][(pc = "scanning" /\ pc' = "scanning" /\ req.search_bytes # <<>>)
           => req'.offset > req.offset]_vars

\* the scan of the empty pattern has reported a match at the same offset
\* more often than the file has bytes
C28_EmptyPatternRepeats ==
    /\ pc = "scanning"
    /\ req.search_bytes = <<>>
    /\ Len(req.results) > FileSize(file) + 1
    /\ \A i \in DOMAIN req.results : req.results[i].offset = req.offset


----------------------------------------------------------------------------
(* The per-table check of validate_sqlite_database over every order of the *)
(* tables and every set of failing tables                                  *)

\* the most tables a database of this part holds
MaxProbeTables == 3

ProbeNames == {"urls", "visits", "notes", "messages"}

\* the lists of distinct names of ProbeNames of up to MaxProbeTables entries
ProbeOrders ==
    UNION { { o \in [1..k -> ProbeNames] : \A i, j \in 1..k : o[i] = o[j] => i = j } :
            k \in 0..MaxProbeTables }

ProbeProvider(order, failing, co, mo) ==
    [ connectable |-> co,
      master_ok   |-> mo,
      freelist_ok |-> TRUE,
      tables      |-> { order[i] : i \in DOMAIN order },
      table_order |-> order,
      broken      |-> failing,
      row_count   |-> [t \in { order[i] : i \in DOMAIN order } |-> 1] ]

InitProbe ==
    /\ pc = "ready"
    /\ \E kind \in {"database", "foreign"}, readable \in BOOLEAN :
           file = SessionFile(kind, <<"d", "b">>, readable)
    /\ \E order \in ProbeOrders, co \in BOOLEAN, mo \in BOOLEAN :
         \E failing \in SUBSET { order[i] : i \in DOMAIN order } :
           /\ (~co \/ ~mo \/ ~Readable(file)) => (Len(order) = 2 /\ failing = {})
           /\ provider = ProbeProvider(order, failing, co, mo)
    /\ parser = NewParser(file)
    /\ conns = <<>>
    /\ req = <<>>
    /\ result = NoResult
    /\ queries = <<>>

\* validate_sqlite_database(file_path)
DoValidateSqliteDatabase ==
    /\ pc = "ready"
    /\ LET v == ValidateSqliteDatabase(provider, conns, file)
       IN  /\ conns' = v.c
           /\ result' = Return([ is_valid         |-> v.is_valid,
                                 errors           |-> v.errors,
                                 recovered_tables |-> v.recovered_tables,
                                 partial_analysis |-> v.partial_analysis ])
           /\ req' = [op |-> "validate_sqlite_database", probed |-> v.probed]
    /\ pc' = "validated"
    /\ UNCHANGED <<file, provider, parser, queries>>

NextProbe == DoValidateSqliteDatabase

SpecProbe == InitProbe /\ [][NextProbe]_vars

\* the tables were listed and probed
Probed ==
    /\ pc = "validated"
    /\ Readable(file) /\ provider.connectable /\ provider.master_ok

\* C29: the check loop of validate_sqlite_database probes every table of
\* the initial list exactly once, and leaves in recovered_tables exactly the
\* tables whose probe succeeded, in their original order, for every list of
\* tables and every set of failing tables.
C29_ProbeLoopFilters ==
    Probed =>
        /\ req.probed = provider.table_order
        /\ result.ret[1].recovered_tables =
               SelectSeq(provider.table_order, LAMBDA t : t \notin provider.broken)

\* the loop is as claimed when no table fails
C29_NoFailureProbesAll ==
    (Probed /\ provider.broken = {}) =>
        /\ req.probed = provider.table_order
        /\ result.ret[1].recovered_tables = provider.table_order

\* two failing tables next to each other were checked: the second was not
\* probed and is still listed
C29_AdjacentFailureKept ==
    /\ Probed
    /\ provider.table_order = <<"urls", "visits", "notes">>
    /\ provider.broken = {"urls", "visits"}
    /\ req.probed = <<"urls", "notes">>
    /\ result.ret[1].recovered_tables = <<"visits", "notes">>


\* C30: a validation response has is_valid = true only if hashing succeeded,
\* the header decoded, the connection opened and the catalog has a table;
\* such a response carries the three digests, the file size and the header
\* signature, no error list, and an artifact type other than unknown.  A
\* response with is_valid = false has a non-empty error list and no
\* artifact type.
C30_ValidationResponse ==
    Validated =>
        LET resp == result.ret[1]
        IN  /\ resp.is_valid =>
                   /\ Readable(file)
                   /\ parser.header_data # NoneDict
                   /\ provider.connectable
                   /\ SchemaTables(parser) # {}
                   /\ resp.md5_hash = Digest("md5", Content(file))
                   /\ resp.sha1_hash = Digest("sha1", Content(file))
                   /\ resp.sha256_hash = Digest("sha256", Content(file))
                   /\ resp.file_size = <<FileSize(file)>>
                   /\ resp.header_signature # <<>>
                   /\ resp.errors = <<>>
                   /\ resp.artifact_type # <<>>
                   /\ resp.artifact_type # <<"unknown">>
            /\ ~resp.is_valid =>
                   /\ resp.errors # <<>>
                   /\ resp.artifact_type = <<>>

\* a browsing history was validated and classified
C30_Witness ==
    /\ Validated
    /\ result.ret[1].is_valid
    /\ result.ret[1].artifact_type = <<"chrome_history">>
    /\ result.ret[1].errors = <<>>

\* a database without tables was rejected with its digests
C30_NoTablesRejected ==
    /\ Validated
    /\ ~result.ret[1].is_valid
    /\ provider.connectable /\ provider.master_ok /\ provider.tables = {}
    /\ CarriesDigests(result.ret[1])
    /\ result.ret[1].artifact_type = <<>>

====
